---- MODULE Spec2Model ----
(***************************************************************************)
(* Authentication and session core of the MGKEIT Pair Alert bot:           *)
(* password manager, session manager, 2FA utilities, the activity          *)
(* middleware and the aiogram handlers that drive them.                    *)
(*                                                                         *)
(* Conventions                                                             *)
(*  - a text (message text, password, code) is a sequence of characters,   *)
(*    each a one-character string; a non-ASCII character is written as its *)
(*    code point ("U+041E");                                               *)
(*  - wall-clock time is counted in ticks of 1/Res second, so that         *)
(*    int(elapsed) in get_session_remaining_time is a real truncation;     *)
(*  - a bcrypt hash is <<"$2b$", plaintext>>: the salt is left out, since  *)
(*    bcrypt.checkpw decides on the plaintext alone; '' is <<>>;           *)
(*  - a JSON list column (password_history, backup_codes) is a sequence,   *)
(*    '' and '[]' both being <<>> (the code reads them with `or "[]"`).    *)
(***************************************************************************)
EXTENDS Integers, Sequences, FiniteSets, TLC

VARIABLES
    db,        \* users table: user_id -> row
    fsm,       \* aiogram FSM storage: user_id -> [state, new_password, secret]
    now,       \* time.time(), in ticks of 1/Res second
    ticks,     \* number of clock advances so far
    pending,   \* the event the middleware passed on to its handler, or NoEvent
    ret,       \* the last direct call, or the middleware's last run: input and outcome
    pwlog      \* passwords set by successful change_password calls, in order

vars == <<db, fsm, now, ticks, pending, ret, pwlog>>

----------------------------------------------------------------------------
(* Bounds of the model *)

Res == 2             \* clock ticks per second
BootTime == 2000     \* clock reading when the bot starts (a Unix time, far above the timeout)
MaxTicks == 2        \* clock advances per run
MaxChanges == 10     \* change_password calls that succeed, password-manager runs
MaxSysTicks == 1      \* clock advances per run, bot runs
MaxSysChanges == 1   \* change_password calls that succeed, bot runs

(* Program constants *)

SESSION_TIMEOUT == 120
MIN_LENGTH == 8
MAX_LENGTH == 128
HISTORY_DEPTH == 8
TOTP_INTERVAL == 30
BACKUP_CODE_COUNT == 10

Users == {1, 2}
ADMINS == {1}        \* settings.ADMINS
CURATORS == {}       \* settings.CURATORS
Roles == {"student", "curator", "admin"}

----------------------------------------------------------------------------
(* Texts *)

TXT_CANCEL == <<"U+041E", "U+0442", "U+043C", "U+0435", "U+043D", "U+0430">>
TXT_BACK == <<"U+041D", "U+0430", "U+0437", "U+0430", "U+0434">>
TXT_BACK_SETTINGS == <<"U+041D", "U+0430", "U+0437", "U+0430", "U+0434", " ", "U+0432", " ", "U+043D", "U+0430", "U+0441", "U+0442", "U+0440", "U+043E", "U+0439", "U+043A", "U+0438">>
TXT_CHANGE_PASSWORD == <<"U+0421", "U+043C", "U+0435", "U+043D", "U+0438", "U+0442", "U+044C", " ", "U+043F", "U+0430", "U+0440", "U+043E", "U+043B", "U+044C">>
TXT_2FA_MENU == <<"U+041D", "U+0430", "U+0441", "U+0442", "U+0440", "U+043E", "U+0439", "U+043A", "U+0430", " ", "2", "F", "A">>
TXT_ENABLE_2FA == <<"U+0412", "U+043A", "U+043B", "U+044E", "U+0447", "U+0438", "U+0442", "U+044C", " ", "2", "F", "A">>
TXT_DISABLE_2FA == <<"U+041E", "U+0442", "U+043A", "U+043B", "U+044E", "U+0447", "U+0438", "U+0442", "U+044C", " ", "2", "F", "A">>
CMD_START == <<"/", "s", "t", "a", "r", "t">>
CMD_SETROLE == <<"/", "s", "e", "t", "r", "o", "l", "e">>
TXT_OTHER == <<"U+0420", "U+0430", "U+0441", "U+043F", "U+0438", "U+0441", "U+0430", "U+043D", "U+0438", "U+0435">>

PW_ADMIN == <<"a", "d", "m", "i", "n">>
PW_CURATOR == <<"c", "u", "r", "a", "t", "o", "r">>
PW_WEAK == <<"W", "e", "a", "k", "p", "a", "s", "s">>
PW_STRONG == <<"S", "t", "r", "o", "n", "g", "1", "2", "3">>

DigitChar(i) == <<"0", "1", "2", "3", "4", "5", "6", "7", "8", "9">>[i + 1]

\* "Abcdefg0" .. "Abcdefg9"
PwN(i) == <<"A", "b", "c", "d", "e", "f", "g", DigitChar(i % 10)>>

LowerAZ == {"a", "b", "c", "d", "e", "f", "g", "h", "i", "j", "k", "l", "m",
            "n", "o", "p", "q", "r", "s", "t", "u", "v", "w", "x", "y", "z"}
UpperAZ == {"A", "B", "C", "D", "E", "F", "G", "H", "I", "J", "K", "L", "M",
            "N", "O", "P", "Q", "R", "S", "T", "U", "V", "W", "X", "Y", "Z"}
AsciiDigits == {"0", "1", "2", "3", "4", "5", "6", "7", "8", "9"}
\* re's \d is Unicode-aware on str: ARABIC-INDIC DIGIT THREE stands for the rest
UnicodeDigits == AsciiDigits \cup {"U+0663"}
ALLOWED_SYMBOLS == {"~", "!", "?", "@", "#", "$", "%", "^", "&", "*", "_", "-", "+",
                    "(", ")", "[", "]", "{", "}", "<", ">", "/", "\\", "|", "\"",
                    "'", ".", ",", ";", ":"}
AllowedChars == LowerAZ \cup UpperAZ \cup AsciiDigits \cup ALLOWED_SYMBOLS

Max(a, b) == IF a >= b THEN a ELSE b

----------------------------------------------------------------------------
(* utils/password_manager.py *)

DEFAULT_PASSWORDS == [admin |-> PW_ADMIN, curator |-> PW_CURATOR]

\* re.match(rf"^[a-zA-Z0-9{...}]+$", password): `$` also matches before a final newline
AllowedPatternMatches(password) ==
    LET body == IF Len(password) > 0 /\ password[Len(password)] = "\n"
                THEN SubSeq(password, 1, Len(password) - 1)
                ELSE password
    IN  /\ Len(body) >= 1
        /\ \A i \in 1..Len(body) : body[i] \in AllowedChars

validate_password(password) ==
    IF Len(password) = 0 THEN [ok |-> FALSE, err |-> "empty"]
    ELSE IF Len(password) < MIN_LENGTH THEN [ok |-> FALSE, err |-> "too_short"]
    ELSE IF Len(password) > MAX_LENGTH THEN [ok |-> FALSE, err |-> "too_long"]
    ELSE IF \E i \in 1..Len(password) : password[i] = " "
        THEN [ok |-> FALSE, err |-> "space"]
    ELSE IF ~ \E i \in 1..Len(password) : password[i] \in LowerAZ
        THEN [ok |-> FALSE, err |-> "no_lower"]
    ELSE IF ~ \E i \in 1..Len(password) : password[i] \in UpperAZ
        THEN [ok |-> FALSE, err |-> "no_upper"]
    ELSE IF ~ \E i \in 1..Len(password) : password[i] \in UnicodeDigits
        THEN [ok |-> FALSE, err |-> "no_digit"]
    ELSE IF ~ AllowedPatternMatches(password)
        THEN [ok |-> FALSE, err |-> "bad_char"]
    ELSE [ok |-> TRUE, err |-> ""]

hash_password(password) == <<"$2b$", password>>

\* bcrypt.checkpw inside try/except: a malformed hash gives False
verify_password(password, hashed) ==
    /\ Len(hashed) = 2
    /\ hashed[1] = "$2b$"
    /\ hashed[2] = password

\* verify_user_password that lets a principal without a stored hash in
verify_user_password_norow(d, user_id, password) ==
    \/ ~ d[user_id].exists
    \/ d[user_id].hashed_password = <<>>
    \/ verify_password(password, d[user_id].hashed_password)

verify_user_password(d, user_id, password) ==
    /\ d[user_id].exists
    /\ d[user_id].hashed_password # <<>>
    /\ verify_password(password, d[user_id].hashed_password)

\* LastN that keeps the whole list
LastN_uncapped(s, n) == s

\* history[-8:]
LastN(s, n) == IF Len(s) <= n THEN s ELSE SubSeq(s, Len(s) - n + 1, Len(s))

\* change_password that also ends the caller's session
change_password_logout(d, user_id, new_password) ==
    LET v == validate_password(new_password) IN
    IF ~ v.ok THEN [ok |-> FALSE, msg |-> v.err, db |-> d]
    ELSE IF ~ d[user_id].exists THEN [ok |-> FALSE, msg |-> "UserNotFound", db |-> d]
    ELSE
        LET current_hashed == d[user_id].hashed_password
            history == d[user_id].password_history
            new_hashed == hash_password(new_password)
            checked == LastN(history, HISTORY_DEPTH)
        IN  IF \E i \in 1..Len(checked) : verify_password(new_password, checked[i])
            THEN [ok |-> FALSE, msg |-> "ReusedPassword", db |-> d]
            ELSE
                LET appended == IF current_hashed # <<>>
                                THEN Append(history, current_hashed)
                                ELSE history
                    kept == LastN(appended, HISTORY_DEPTH)
                IN  [ok |-> TRUE, msg |-> "ok",
                     db |-> [d EXCEPT ![user_id].hashed_password = new_hashed,
                                      ![user_id].password_changed = TRUE,
                                      ![user_id].password_history = kept,
                                      ![user_id].last_auth_time = 0]]

\* change_password: [ok, msg, db]
change_password(d, user_id, new_password) ==
    LET v == validate_password(new_password) IN
    IF ~ v.ok THEN [ok |-> FALSE, msg |-> v.err, db |-> d]
    ELSE IF ~ d[user_id].exists THEN [ok |-> FALSE, msg |-> "UserNotFound", db |-> d]
    ELSE
        LET current_hashed == d[user_id].hashed_password
            history == d[user_id].password_history
            new_hashed == hash_password(new_password)
            checked == LastN(history, HISTORY_DEPTH)
        IN  IF \E i \in 1..Len(checked) : verify_password(new_password, checked[i])
            THEN [ok |-> FALSE, msg |-> "ReusedPassword", db |-> d]
            ELSE
                LET appended == IF current_hashed # <<>>
                                THEN Append(history, current_hashed)
                                ELSE history
                    kept == LastN(appended, HISTORY_DEPTH)
                IN  [ok |-> TRUE, msg |-> "ok",
                     db |-> [d EXCEPT ![user_id].hashed_password = new_hashed,
                                      ![user_id].password_changed = TRUE,
                                      ![user_id].password_history = kept]]

\* is_password_changed that reports every password as changed
is_password_changed_always(d, user_id) == TRUE

is_password_changed(d, user_id) ==
    IF ~ d[user_id].exists THEN FALSE ELSE d[user_id].password_changed

----------------------------------------------------------------------------
(* db/db.py *)

\* a row as INSERT leaves it when only user_id (and role) are given
DefaultRow ==
    [exists |-> TRUE, role |-> "student", hashed_password |-> <<>>,
     password_changed |-> FALSE, password_history |-> <<>>,
     two_fa_enabled |-> FALSE, two_fa_secret |-> "", backup_codes |-> <<>>,
     last_auth_time |-> 0]

NoRow == [DefaultRow EXCEPT !.exists = FALSE]

get_user_role(d, user_id) ==
    IF user_id \in ADMINS THEN "admin"
    ELSE IF user_id \in CURATORS THEN "curator"
    ELSE IF ~ d[user_id].exists THEN "student"
    ELSE d[user_id].role

\* set_user_role whose upsert resets password_changed on every conflict
set_user_role_reset(d, user_id, role) ==
    LET existing_password == IF d[user_id].exists THEN d[user_id].hashed_password ELSE <<>>
        hashed_password ==
            IF role \in DOMAIN DEFAULT_PASSWORDS
            THEN IF existing_password = <<>>
                 THEN hash_password(DEFAULT_PASSWORDS[role])
                 ELSE existing_password
            ELSE <<>>
    IN  IF ~ d[user_id].exists
        THEN [d EXCEPT ![user_id] = [DefaultRow EXCEPT !.role = role,
                                                       !.hashed_password = hashed_password,
                                                       !.password_changed = FALSE]]
        ELSE [d EXCEPT ![user_id].role = role,
                       ![user_id].hashed_password =
                           IF hashed_password # <<>> THEN hashed_password ELSE @,
                       ![user_id].password_changed = FALSE]

\* set_user_role that seeds the default password over an existing one
set_user_role_reseed(d, user_id, role) ==
    LET hashed_password ==
            IF role \in DOMAIN DEFAULT_PASSWORDS
            THEN hash_password(DEFAULT_PASSWORDS[role])
            ELSE <<>>
    IN  IF ~ d[user_id].exists
        THEN [d EXCEPT ![user_id] = [DefaultRow EXCEPT !.role = role,
                                                       !.hashed_password = hashed_password,
                                                       !.password_changed = FALSE]]
        ELSE [d EXCEPT ![user_id].role = role,
                       ![user_id].hashed_password =
                           IF hashed_password # <<>> THEN hashed_password ELSE @,
                       ![user_id].password_changed =
                           IF hashed_password # <<>> THEN FALSE ELSE @]

set_user_role(d, user_id, role) ==
    LET existing_password == IF d[user_id].exists THEN d[user_id].hashed_password ELSE <<>>
        hashed_password ==
            IF role \in DOMAIN DEFAULT_PASSWORDS
            THEN IF existing_password = <<>>
                 THEN hash_password(DEFAULT_PASSWORDS[role])
                 ELSE existing_password
            ELSE <<>>
    IN  IF ~ d[user_id].exists
        THEN [d EXCEPT ![user_id] = [DefaultRow EXCEPT !.role = role,
                                                       !.hashed_password = hashed_password,
                                                       !.password_changed = FALSE]]
        ELSE [d EXCEPT ![user_id].role = role,
                       ![user_id].hashed_password =
                           IF hashed_password # <<>> THEN hashed_password ELSE @,
                       ![user_id].password_changed =
                           IF hashed_password # <<>> /\ d[user_id].hashed_password = <<>>
                           THEN FALSE ELSE @]

\* set_user_name: inserts the row when it is missing (names are not modelled)
set_user_name(d, user_id) ==
    IF d[user_id].exists THEN d ELSE [d EXCEPT ![user_id] = DefaultRow]

\* _initialize_env_passwords, run by init_db on an empty table
InitialDb ==
    [u \in Users |->
        IF u \in ADMINS
        THEN [DefaultRow EXCEPT !.role = "admin",
                                !.hashed_password = hash_password(DEFAULT_PASSWORDS["admin"])]
        ELSE IF u \in CURATORS
        THEN [DefaultRow EXCEPT !.role = "curator",
                                !.hashed_password = hash_password(DEFAULT_PASSWORDS["curator"])]
        ELSE NoRow]

----------------------------------------------------------------------------
(* utils/session_manager.py *)

\* authenticate_user that writes nothing
authenticate_user_dropped(d, t, user_id) == d

authenticate_user(d, t, user_id) ==
    IF d[user_id].exists THEN [d EXCEPT ![user_id].last_auth_time = t] ELSE d

\* update_activity that forgets to write the timestamp
update_activity_noop(d, t, user_id) == d

update_activity(d, t, user_id) == authenticate_user(d, t, user_id)

is_session_active(d, t, user_id) ==
    IF ~ d[user_id].exists THEN FALSE
    ELSE (t - d[user_id].last_auth_time) < SESSION_TIMEOUT * Res

\* invalidate_session whose UPDATE has lost its WHERE clause
invalidate_session_all(d, user_id) ==
    [v \in DOMAIN d |-> IF d[v].exists THEN [d[v] EXCEPT !.last_auth_time = 0] ELSE d[v]]

invalidate_session(d, user_id) ==
    IF d[user_id].exists THEN [d EXCEPT ![user_id].last_auth_time = 0] ELSE d

\* round-up instead of int()
PyIntCeil(n) == IF n >= 0 THEN (n + Res - 1) \div Res ELSE 0 - ((0 - n) \div Res)

\* int(x) for x = n / Res: truncation towards zero
PyInt(n) == IF n >= 0 THEN n \div Res ELSE 0 - ((0 - n) \div Res)

get_session_remaining_time(d, t, user_id) ==
    IF ~ d[user_id].exists THEN 0
    ELSE Max(0, SESSION_TIMEOUT - PyInt(t - d[user_id].last_auth_time))

----------------------------------------------------------------------------
(* utils/two_fa.py *)

Secrets == {"SECRETA"}      \* what pyotp.random_base32() may return
SecretSeed(secret) == IF secret = "SECRETA" THEN 1 ELSE IF secret = "SECRETB" THEN 2 ELSE 3

\* the six decimal digits of n, most significant first
SixDigits(n) ==
    <<DigitChar((n \div 100000) % 10), DigitChar((n \div 10000) % 10),
      DigitChar((n \div 1000) % 10), DigitChar((n \div 100) % 10),
      DigitChar((n \div 10) % 10), DigitChar(n % 10)>>

\* pyotp.TOTP(secret).generate_otp(counter): HMAC-SHA1 truncated to 6 digits, stood
\* for by an arithmetic mix of secret and counter
generate_otp(secret, counter) ==
    SixDigits((SecretSeed(secret) * 100003 + counter * 7919) % 1000000)

\* pyotp timecode: int(time.time()) // interval
timecode(t) == PyInt(t) \div TOTP_INTERVAL

IsDigitText(code) == \A i \in 1..Len(code) : code[i] \in UnicodeDigits

\* verify_totp_code with valid_window=2
verify_totp_code_wide(secret, code, t) ==
    IF Len(code) = 0 \/ ~ IsDigitText(code) \/ Len(code) # 6 THEN FALSE
    ELSE \E i \in {0 - 2, 0 - 1, 0, 1, 2} : code = generate_otp(secret, timecode(t) + i)

verify_totp_code(secret, code, t) ==
    IF Len(code) = 0 \/ ~ IsDigitText(code) \/ Len(code) # 6 THEN FALSE
    ELSE \E i \in {0 - 1, 0, 1} : code = generate_otp(secret, timecode(t) + i)

LowerSeq == <<"a", "b", "c", "d", "e", "f", "g", "h", "i", "j", "k", "l", "m",
              "n", "o", "p", "q", "r", "s", "t", "u", "v", "w", "x", "y", "z">>
UpperSeq == <<"A", "B", "C", "D", "E", "F", "G", "H", "I", "J", "K", "L", "M",
              "N", "O", "P", "Q", "R", "S", "T", "U", "V", "W", "X", "Y", "Z">>

\* str.upper() on one character (ASCII letters; other characters are left as they are)
UpperChar(c) ==
    IF c \in LowerAZ THEN UpperSeq[CHOOSE i \in 1..26 : LowerSeq[i] = c] ELSE c

RECURSIVE StripChars(_, _)
\* text.replace(x, '') for every x in drop
StripChars(text, drop) ==
    IF text = <<>> THEN <<>>
    ELSE IF Head(text) \in drop THEN StripChars(Tail(text), drop)
    ELSE <<Head(text)>> \o StripChars(Tail(text), drop)

\* message.text.strip(): leading and trailing whitespace removed
RECURSIVE LStrip(_)
LStrip(text) ==
    IF text # <<>> /\ Head(text) \in {" ", "\n", "\t"} THEN LStrip(Tail(text)) ELSE text
RECURSIVE RStrip(_)
RStrip(text) ==
    IF text # <<>> /\ text[Len(text)] \in {" ", "\n", "\t"}
    THEN RStrip(SubSeq(text, 1, Len(text) - 1)) ELSE text
Strip(text) == RStrip(LStrip(text))

UpperText(text) == [i \in 1..Len(text) |-> UpperChar(text[i])]

\* the i-th code (1..count) of batch k, in generate_backup_codes' XXXX-XXXX format
BackupCode(k, i) == <<"B", "K", DigitChar(k % 10), "X", "-", "0", "0", "0", DigitChar((i - 1) % 10)>>

Batches == {1}                       \* the draws of secrets.choice that are modelled
generate_backup_codes(k, count) == [i \in 1..count |-> BackupCode(k, i)]

hash_backup_code(code) == <<"sha256", code>>

store_backup_codes(codes) == [i \in 1..Len(codes) |-> hash_backup_code(codes[i])]

\* list.remove(x) that removes every occurrence
RemoveEvery(list, x) == SelectSeq(list, LAMBDA y : y # x)

RECURSIVE RemoveFirst(_, _)
\* list.remove(x)
RemoveFirst(list, x) ==
    IF list = <<>> THEN <<>>
    ELSE IF Head(list) = x THEN Tail(list)
    ELSE <<Head(list)>> \o RemoveFirst(Tail(list), x)

NormalizeBackupCode(code) ==
    LET n == UpperText(StripChars(code, {" ", "-"}))
    IN  IF Len(n) = 8 THEN SubSeq(n, 1, 4) \o <<"-">> \o SubSeq(n, 5, 8) ELSE n

\* verify_backup_code that accepts a stored code and leaves it in the list
verify_backup_code_reusable(code, hashed_codes) ==
    LET code_hash == hash_backup_code(NormalizeBackupCode(code))
    IN  IF \E i \in 1..Len(hashed_codes) : hashed_codes[i] = code_hash
        THEN [valid |-> TRUE, updated |-> hashed_codes, is_none |-> FALSE]
        ELSE [valid |-> FALSE, updated |-> <<>>, is_none |-> TRUE]

\* verify_backup_code: [valid, updated, is_none]; (False, None) has is_none = TRUE
verify_backup_code(code, hashed_codes) ==
    LET code_hash == hash_backup_code(NormalizeBackupCode(code))
    IN  IF \E i \in 1..Len(hashed_codes) : hashed_codes[i] = code_hash
        THEN [valid |-> TRUE, updated |-> RemoveFirst(hashed_codes, code_hash), is_none |-> FALSE]
        ELSE [valid |-> FALSE, updated |-> <<>>, is_none |-> TRUE]

----------------------------------------------------------------------------
(* State *)

NoEvent == [kind |-> "none", u |-> 0, text |-> <<>>]

NoRet == [op |-> "none", u |-> 0, arg |-> <<>>, flag |-> FALSE, ok |-> FALSE,
          msg |-> "", val |-> 0, at |-> 0, prev |-> 0]

\* the record of a call made at clock reading t
Ret(op, u, arg, flag, ok, msg, val, t, prev) ==
    [op |-> op, u |-> u, arg |-> arg, flag |-> flag, ok |-> ok,
     msg |-> msg, val |-> val, at |-> t, prev |-> prev]

ST_NONE == "None"
AUTH_PASSWORD == "AuthStates:waiting_password"
AUTH_2FA_CODE == "AuthStates:waiting_2fa_code"
AUTH_NEW_PASSWORD == "AuthStates:waiting_new_password"
AUTH_CONFIRM_PASSWORD == "AuthStates:waiting_confirm_password"

\* FSMContext of a user with no state and no data
ClearedFsm == [state |-> ST_NONE, new_password |-> <<>>, secret |-> ""]

Init ==
    /\ db = InitialDb
    /\ fsm = [u \in Users |-> ClearedFsm]
    /\ now = BootTime
    /\ ticks = 0
    /\ pending = NoEvent
    /\ ret = NoRet
    /\ pwlog = <<>>

\* time.time() moves on: half a second, a second, a second short of the timeout
TickSteps == {1, Res, Res * (SESSION_TIMEOUT - 1)}

Tick ==
    /\ pending = NoEvent
    /\ ticks < MaxTicks
    /\ \E d \in TickSteps : now' = now + d
    /\ ticks' = ticks + 1
    /\ UNCHANGED <<db, fsm, pending, ret, pwlog>>

----------------------------------------------------------------------------
(* handlers/auth.py: require_authentication *)

\* require_authentication that lets an active session pass even when forced
require_authentication_unforced(d, f, t, user_id, force) ==
    IF is_session_active(d, t, user_id)
    THEN [result |-> TRUE, fsm |-> f]
    ELSE [result |-> FALSE, fsm |-> [f EXCEPT ![user_id].state = AUTH_PASSWORD]]

\* [result, fsm]
require_authentication(d, f, t, user_id, force) ==
    IF ~ force /\ is_session_active(d, t, user_id)
    THEN [result |-> TRUE, fsm |-> f]
    ELSE [result |-> FALSE, fsm |-> [f EXCEPT ![user_id].state = AUTH_PASSWORD]]

----------------------------------------------------------------------------
(* The core's functions called directly, as its collaborators may call them *)

AuthenticateUserCall(u) ==
    /\ db' = authenticate_user(db, now, u)
    /\ ret' = Ret("authenticate_user", u, <<>>, FALSE, TRUE, "", 0, now, db[u].last_auth_time)
    /\ UNCHANGED <<fsm, now, ticks, pending, pwlog>>

UpdateActivityCall(u) ==
    /\ db' = update_activity(db, now, u)
    /\ ret' = Ret("update_activity", u, <<>>, FALSE, TRUE, "", 0, now, db[u].last_auth_time)
    /\ UNCHANGED <<fsm, now, ticks, pending, pwlog>>

InvalidateSessionCall(u) ==
    /\ db' = invalidate_session(db, u)
    /\ ret' = Ret("invalidate_session", u, <<>>, FALSE, TRUE, "", 0, now, db[u].last_auth_time)
    /\ UNCHANGED <<fsm, now, ticks, pending, pwlog>>

IsSessionActiveCall(u) ==
    /\ ret' = Ret("is_session_active", u, <<>>, FALSE, is_session_active(db, now, u), "", 0,
                  now, db[u].last_auth_time)
    /\ UNCHANGED <<db, fsm, now, ticks, pending, pwlog>>

GetSessionRemainingTimeCall(u) ==
    /\ ret' = Ret("get_session_remaining_time", u, <<>>, FALSE, TRUE, "",
                  get_session_remaining_time(db, now, u), now, db[u].last_auth_time)
    /\ UNCHANGED <<db, fsm, now, ticks, pending, pwlog>>

RequireAuthenticationCall(u, force) ==
    LET r == require_authentication(db, fsm, now, u, force) IN
    /\ fsm' = r.fsm
    /\ ret' = Ret("require_authentication", u, <<>>, force, r.result, "", 0, now,
                  db[u].last_auth_time)
    /\ UNCHANGED <<db, now, ticks, pending, pwlog>>

ChangePasswordCall(u, new_password) ==
    LET r == change_password(db, u, new_password) IN
    /\ Len(pwlog) < MaxChanges
    /\ db' = r.db
    /\ pwlog' = IF r.ok THEN Append(pwlog, new_password) ELSE pwlog
    /\ ret' = Ret("change_password", u, new_password, FALSE, r.ok, r.msg, 0, now,
                  db[u].last_auth_time)
    /\ UNCHANGED <<fsm, now, ticks, pending>>

(* The session tracker alone, on a table as the bot leaves it *)

\* the table after init_db, user 2 being unknown or a curator seeded by set_user_role
InitialTables == {InitialDb, set_user_role(InitialDb, 2, "curator")}

InitCore ==
    /\ db \in InitialTables
    /\ fsm = [u \in Users |-> ClearedFsm]
    /\ now = BootTime
    /\ ticks = 0
    /\ pending = NoEvent
    /\ ret = NoRet
    /\ pwlog = <<>>

NextCore ==
    \/ Tick
    \/ \E u \in Users : AuthenticateUserCall(u)
    \/ \E u \in Users : UpdateActivityCall(u)
    \/ \E u \in Users : InvalidateSessionCall(u)
    \/ \E u \in Users : IsSessionActiveCall(u)
    \/ \E u \in Users : GetSessionRemainingTimeCall(u)

SpecCore == InitCore /\ [][NextCore]_vars

(* The same calls with the clock free to read any value from 0 on *)

InitEpoch ==
    /\ db \in InitialTables
    /\ fsm = [u \in Users |-> ClearedFsm]
    /\ now = 0
    /\ ticks = 0
    /\ pending = NoEvent
    /\ ret = NoRet
    /\ pwlog = <<>>

SpecEpoch == InitEpoch /\ [][NextCore]_vars

(* require_authentication called with either value of force, whatever the session *)

NextGate ==
    \/ Tick
    \/ \E u \in Users : AuthenticateUserCall(u)
    \/ \E u \in Users : InvalidateSessionCall(u)
    \/ \E u \in Users, force \in BOOLEAN : RequireAuthenticationCall(u, force)

SpecGate == InitCore /\ [][NextGate]_vars

(* The password manager alone: change_password called over and over on user 1 *)

\* the passwords tried: "Abcdefg1".."Abcdefg9", "Abcdefg0" and one that fails validation
PwPool == {PwN(i) : i \in 1..10} \cup {PW_WEAK}

\* passwords are interchangeable, so a password never set before is taken in order:
\* "Abcdefg<k+1>" only once "Abcdefg<k>" has been set
FreshInOrder(pw) ==
    \A i \in 2..10 : pw = PwN(i) => \E j \in 1..Len(pwlog) : pwlog[j] = PwN(i - 1)

NextPw == \E pw \in PwPool : FreshInOrder(pw) /\ ChangePasswordCall(1, pw)

SpecPw == Init /\ [][NextPw]_vars

(* The credential store: role assignment and password changes on rows of every kind *)

MaxStoreChanges == 2

\* the admin's row once it has set its own password and enrolled a second factor
EnrolledDb ==
    LET d == change_password(InitialDb, 1, PW_STRONG).db IN
    [d EXCEPT ![1].two_fa_enabled = TRUE,
              ![1].two_fa_secret = "SECRETA",
              ![1].backup_codes = store_backup_codes(generate_backup_codes(1, BACKUP_CODE_COUNT))]

\* user 2 unknown, a seeded curator, or a student that only sent /start
StoreTables == InitialTables \cup {EnrolledDb, set_user_name(InitialDb, 2)}

StorePool == {PW_WEAK, PW_STRONG, PwN(1)}

SetUserRoleCall(u, role) ==
    /\ db' = set_user_role(db, u, role)
    /\ ret' = Ret("set_user_role", u, <<>>, FALSE, TRUE, role, 0, now, db[u].last_auth_time)
    /\ UNCHANGED <<fsm, now, ticks, pending, pwlog>>

InitStore ==
    /\ db \in StoreTables
    /\ fsm = [u \in Users |-> ClearedFsm]
    /\ now = BootTime
    /\ ticks = 0
    /\ pending = NoEvent
    /\ ret = NoRet
    /\ pwlog = <<>>

NextStore ==
    \/ \E u \in Users : AuthenticateUserCall(u)
    \/ \E u \in Users, role \in Roles : SetUserRoleCall(u, role)
    \/ \E u \in Users, pw \in StorePool :
           Len(pwlog) < MaxStoreChanges /\ ChangePasswordCall(u, pw)

SpecStore == InitStore /\ [][NextStore]_vars

(* change_password step by step: the SELECT, then the UPDATE and its commit, with
   other calls in between and the write free to fail before it is committed *)

\* an UPDATE that an interruption leaves applied to hashed_password alone
update_password_partial(d, user_id, new_hashed, history, committed) ==
    IF committed
    THEN [d EXCEPT ![user_id].hashed_password = new_hashed,
                   ![user_id].password_changed = TRUE,
                   ![user_id].password_history = history]
    ELSE [d EXCEPT ![user_id].hashed_password = new_hashed]

\* the UPDATE of the three columns in its own connection: committed, or rolled back
\* when the connection is closed before the commit
update_password(d, user_id, new_hashed, history, committed) ==
    IF committed /\ d[user_id].exists
    THEN [d EXCEPT ![user_id].hashed_password = new_hashed,
                   ![user_id].password_changed = TRUE,
                   ![user_id].password_history = history]
    ELSE d

\* validation and the SELECT; the row read is carried to the write
ChangePasswordRead(u, new_password) ==
    LET v == validate_password(new_password) IN
    /\ pending = NoEvent
    /\ Len(pwlog) < MaxStoreChanges
    /\ IF ~ v.ok \/ ~ db[u].exists
       THEN /\ ret' = Ret("change_password", u, new_password, FALSE, FALSE,
                          IF ~ v.ok THEN v.err ELSE "UserNotFound", 0, now,
                          db[u].last_auth_time)
            /\ UNCHANGED pending
       ELSE /\ pending' = [kind |-> "change_password", u |-> u, text |-> new_password,
                           current_hashed |-> db[u].hashed_password,
                           history |-> db[u].password_history]
            /\ ret' = Ret("select", u, new_password, FALSE, TRUE, "", 0, now,
                          db[u].last_auth_time)
    /\ UNCHANGED <<db, fsm, now, ticks, pwlog>>

\* the history check, the append and the UPDATE, on the row that was read
ChangePasswordWrite ==
    LET u == pending.u
        new_password == pending.text
        checked == LastN(pending.history, HISTORY_DEPTH)
        appended == IF pending.current_hashed # <<>>
                    THEN Append(pending.history, pending.current_hashed)
                    ELSE pending.history
        kept == LastN(appended, HISTORY_DEPTH)
    IN  /\ pending.kind = "change_password"
        /\ pending' = NoEvent
        /\ IF \E i \in 1..Len(checked) : verify_password(new_password, checked[i])
           THEN /\ ret' = Ret("change_password", u, new_password, FALSE, FALSE,
                              "ReusedPassword", 0, now, db[u].last_auth_time)
                /\ UNCHANGED <<db, pwlog>>
           ELSE \E committed \in BOOLEAN :
                /\ db' = update_password(db, u, hash_password(new_password), kept, committed)
                /\ pwlog' = IF committed THEN Append(pwlog, new_password) ELSE pwlog
                /\ ret' = Ret("change_password", u, new_password, FALSE, committed,
                              IF committed THEN "ok" ELSE "interrupted", 0, now,
                              db[u].last_auth_time)
        /\ UNCHANGED <<fsm, now, ticks>>

NextAtomic ==
    \/ \E u \in Users, pw \in StorePool : ChangePasswordRead(u, pw)
    \/ ChangePasswordWrite
    \/ \E u \in Users : AuthenticateUserCall(u)
    \/ \E u \in Users, role \in Roles : SetUserRoleCall(u, role)

SpecAtomic == InitStore /\ [][NextAtomic]_vars

(* verify_backup_code alone, on stored lists of every shape *)

MaxStored == 3

\* what a user may type for "BK1X-0000": as shown, in lower case without the dash,
\* with spaces; other codes of the batch, and texts that are no code
CodeInputs ==
    {BackupCode(1, 1),
     <<"b", "k", "1", "x", "0", "0", "0", "0">>,
     <<"B", "K", "1", "X", " ", "0", "0", "0", "0">>,
     BackupCode(1, 2), BackupCode(1, 3), BackupCode(1, 4),
     <<"B", "K", "1", "X">>, PW_STRONG}

\* the stored lists: up to MaxStored hashes of codes of the batch, repeats included
StoredLists ==
    UNION {[1..n -> {hash_backup_code(BackupCode(1, i)) : i \in 1..3}] : n \in 0..MaxStored}

VerifyBackupCodeCall(code, hashed_codes) ==
    LET r == verify_backup_code(code, hashed_codes) IN
    /\ ret' = Ret("verify_backup_code", 0, code, r.is_none, r.valid, "", r.updated, now,
                  hashed_codes)
    /\ UNCHANGED <<db, fsm, now, ticks, pending, pwlog>>

NextCodes == \E code \in CodeInputs, hashed_codes \in StoredLists :
                 VerifyBackupCodeCall(code, hashed_codes)

SpecCodes == Init /\ [][NextCodes]_vars

----------------------------------------------------------------------------
(* The bot: middleware, routers and handlers (main.py) *)

CP_CURRENT == "ChangePasswordStates:waiting_current_password"
CP_NEW == "ChangePasswordStates:waiting_new_password"
CP_CONFIRM == "ChangePasswordStates:waiting_confirm_password"
CP_2FA == "ChangePasswordStates:waiting_2fa_code"
EN2FA_CODE == "Enable2FAStates:waiting_initial_code"
DIS2FA_PASSWORD == "Disable2FAStates:waiting_password"
DIS2FA_CODE == "Disable2FAStates:waiting_code"
\* any state of the other routers' state groups (settings, curator, admin)
ST_OTHER == "OtherStates:any"

\* auth_states of the middleware
auth_states == {AUTH_PASSWORD, AUTH_2FA_CODE, AUTH_NEW_PASSWORD, AUTH_CONFIRM_PASSWORD}

\* the texts the auth handlers take for a cancel
CancelTexts == {TXT_CANCEL, TXT_BACK, TXT_BACK_SETTINGS}

RoleText(role) ==
    IF role = "admin" THEN <<"a", "d", "m", "i", "n">>
    ELSE IF role = "curator" THEN <<"c", "u", "r", "a", "t", "o", "r">>
    ELSE <<"s", "t", "u", "d", "e", "n", "t">>

\* "/setrole <user_id> <role>"
SetRoleText(target, role) ==
    CMD_SETROLE \o <<" ", DigitChar(target), " ">> \o RoleText(role)

\* Command(cmd): the text is the command, alone or followed by arguments
IsCommand(text, cmd) ==
    /\ Len(text) >= Len(cmd)
    /\ SubSeq(text, 1, Len(cmd)) = cmd
    /\ Len(text) > Len(cmd) => text[Len(cmd) + 1] = " "

\* is_admin or is_curator, as the middleware, cmd_start and _ensure_admin_or_curator
\* compute it
Privileged(d, user_id) ==
    \/ get_user_role(d, user_id) \in {"admin", "curator"}
    \/ user_id \in ADMINS
    \/ user_id \in CURATORS

\* the handler aiogram picks for a message: routers in the order main.py includes
\* them (start, auth, two_fa, then the rest), handlers in the order of registration
Route(ev, state) ==
    IF ev.kind = "callback" THEN "other"
    ELSE IF IsCommand(ev.text, CMD_START) THEN "cmd_start"
    ELSE IF IsCommand(ev.text, CMD_SETROLE) THEN "setrole_command"
    ELSE IF state = AUTH_PASSWORD THEN "process_initial_password"
    ELSE IF state = AUTH_2FA_CODE THEN "process_2fa_code"
    ELSE IF state = AUTH_NEW_PASSWORD THEN "process_new_password"
    ELSE IF state = AUTH_CONFIRM_PASSWORD THEN "process_confirm_password"
    ELSE IF ev.text = TXT_CHANGE_PASSWORD THEN "msg_change_password"
    ELSE IF state = CP_CURRENT THEN "process_current_password"
    ELSE IF state = CP_NEW THEN "process_password_change_new"
    ELSE IF state = CP_CONFIRM THEN "process_password_change_confirm"
    ELSE IF state = CP_2FA THEN "process_password_change_2fa"
    ELSE IF ev.text = TXT_2FA_MENU THEN "msg_2fa_menu"
    ELSE IF ev.text = TXT_ENABLE_2FA THEN "msg_enable_2fa_start"
    ELSE IF state = EN2FA_CODE THEN "process_enable_2fa_code"
    ELSE IF ev.text = TXT_DISABLE_2FA THEN "msg_disable_2fa_start"
    ELSE IF state = DIS2FA_PASSWORD THEN "process_disable_2fa_password"
    ELSE IF state = DIS2FA_CODE THEN "process_disable_2fa_code"
    ELSE "other"

\* the handler `name` is the one that runs on the event the middleware let through
Routed(name) ==
    /\ pending # NoEvent
    /\ Route(pending, fsm[pending.u].state) = name

\* what every handler run leaves behind: the table and the FSM storage; ret keeps
\* the middleware's record of the update
Handled(name, d, f, ok, msg) ==
    /\ db' = d
    /\ fsm' = f
    /\ pending' = NoEvent
    /\ UNCHANGED <<now, ticks, ret>>

\* state.clear() / state.set_state(s) / state.update_data(new_password=p)
state_clear(f, user_id) == [f EXCEPT ![user_id] = ClearedFsm]

\* set_state that leaves the FSM where it was
set_state_kept(f, user_id, s) == f

set_state(f, user_id, s) == [f EXCEPT ![user_id].state = s]

\* the texts users send: commands, buttons, passwords, the authenticator's current
\* codes, a backup code of each batch, anything else
Texts(t) ==
    {CMD_START, SetRoleText(2, "curator"),
     TXT_CANCEL, TXT_CHANGE_PASSWORD, TXT_2FA_MENU, TXT_ENABLE_2FA,
     TXT_DISABLE_2FA, TXT_OTHER, PW_ADMIN, PW_CURATOR, PW_WEAK, PW_STRONG}
    \cup {generate_otp(s, timecode(t)) : s \in Secrets}
    \cup {BackupCode(k, 1) : k \in Batches}

\* user 1, the administrator of the environment, sends all of them; user 2, whom
\* /setrole makes a curator, sends what signing in and changing a password take
TextsOf(user_id, t) ==
    IF user_id \in ADMINS THEN Texts(t)
    ELSE {CMD_START, TXT_CANCEL, TXT_CHANGE_PASSWORD, PW_CURATOR, PW_STRONG}

\* the update would end in a change_password call that succeeds or is rejected
CallsChangePassword(user_id, text) ==
    \/ fsm[user_id].state = AUTH_CONFIRM_PASSWORD /\ text = fsm[user_id].new_password
    \/ /\ fsm[user_id].state = CP_CONFIRM
       /\ text = fsm[user_id].new_password
       /\ ~ db[user_id].two_fa_enabled
    \/ fsm[user_id].state = CP_2FA /\ text \notin CancelTexts

\* SessionActivityMiddleware.__call__ on a message or callback query of user_id
Middleware(user_id, kind, text) ==
    LET ev == [kind |-> kind, u |-> user_id, text |-> text]
    IN  /\ pending = NoEvent
        /\ Len(pwlog) < MaxSysChanges \/ ~ CallsChangePassword(user_id, text)
        /\ UNCHANGED <<now, ticks, pwlog>>
        /\ IF ~ Privileged(db, user_id)
           THEN /\ pending' = ev
                /\ ret' = Ret("middleware", user_id, <<>>, FALSE, TRUE, "unprivileged", 0, now, 0)
                /\ UNCHANGED <<db, fsm>>
           ELSE IF fsm[user_id].state \in auth_states
           THEN /\ pending' = ev
                /\ ret' = Ret("middleware", user_id, <<>>, TRUE, TRUE, "auth_flow", 0, now, 0)
                /\ UNCHANGED <<db, fsm>>
           ELSE IF is_session_active(db, now, user_id)
           THEN /\ db' = update_activity(db, now, user_id)
                /\ pending' = ev
                /\ ret' = Ret("middleware", user_id, <<>>, TRUE, TRUE, "refreshed", 0, now, 0)
                /\ UNCHANGED fsm
           ELSE /\ db' = invalidate_session(db, user_id)
                /\ fsm' = set_state(fsm, user_id, AUTH_PASSWORD)
                /\ pending' = NoEvent
                /\ ret' = Ret("middleware", user_id, <<>>, TRUE, FALSE, "expired", 0, now, 0)

----------------------------------------------------------------------------
(* handlers/start.py *)

cmd_start ==
    LET user_id == pending.u
        d1 == set_user_name(db, user_id)
        role == get_user_role(d1, user_id)
        is_admin == role = "admin" \/ user_id \in ADMINS
        is_curator == role = "curator" \/ user_id \in CURATORS
        actual_role == IF is_admin THEN "admin" ELSE "curator"
        d2 == IF role # actual_role THEN set_user_role(d1, user_id, actual_role) ELSE d1
        d3 == IF d2[user_id].hashed_password = <<>>
              THEN set_user_role(d2, user_id, actual_role) ELSE d2
        password_changed == is_password_changed(d3, user_id)
        session_active == is_session_active(d3, now, user_id)
        ra == require_authentication(d3, fsm, now, user_id, ~ password_changed)
    IN  /\ Routed("cmd_start")
        /\ UNCHANGED pwlog
        /\ IF is_admin \/ is_curator
           THEN IF ~ password_changed \/ ~ session_active
                THEN Handled("cmd_start", d3, ra.fsm, FALSE, "auth_required")
                ELSE Handled("cmd_start", d3, fsm, TRUE, "keyboard")
           ELSE Handled("cmd_start", d1, fsm, TRUE, "student")

\* _is_admin
IsAdminCaller(d, user_id) == user_id \in ADMINS \/ get_user_role(d, user_id) = "admin"

setrole_command ==
    LET caller_id == pending.u
        wellformed == \E target \in Users, role \in Roles : pending.text = SetRoleText(target, role)
        parsed == CHOOSE p \in Users \X Roles : pending.text = SetRoleText(p[1], p[2])
    IN  /\ Routed("setrole_command")
        /\ UNCHANGED pwlog
        /\ IF ~ IsAdminCaller(db, caller_id)
           THEN Handled("setrole_command", db, fsm, FALSE, "not_admin")
           ELSE IF ~ wellformed
           THEN Handled("setrole_command", db, fsm, FALSE, "usage")
           ELSE Handled("setrole_command", set_user_role(db, parsed[1], parsed[2]), fsm,
                        TRUE, "role_set")

----------------------------------------------------------------------------
(* handlers/auth.py *)

process_initial_password ==
    LET user_id == pending.u
        password == pending.text
        two_fa_enabled == db[user_id].exists /\ db[user_id].two_fa_enabled
    IN  /\ Routed("process_initial_password")
        /\ UNCHANGED pwlog
        /\ IF password \in CancelTexts
           THEN Handled("process_initial_password", db, state_clear(fsm, user_id), FALSE, "cancelled")
           ELSE IF ~ verify_user_password(db, user_id, password)
           THEN Handled("process_initial_password", db, fsm, FALSE, "wrong_password")
           ELSE IF two_fa_enabled
           THEN Handled("process_initial_password", db, set_state(fsm, user_id, AUTH_2FA_CODE),
                        TRUE, "need_2fa")
           ELSE IF ~ is_password_changed(db, user_id)
           THEN Handled("process_initial_password", db, set_state(fsm, user_id, AUTH_NEW_PASSWORD),
                        TRUE, "must_change")
           ELSE Handled("process_initial_password", authenticate_user(db, now, user_id),
                        state_clear(fsm, user_id), TRUE, "authenticated")

\* process_2fa_code that lets the principal in on a code that matched nothing
process_2fa_code_lenient ==
    LET user_id == pending.u
        code == Strip(pending.text)
        row == db[user_id]
        secret == row.two_fa_secret
        totp == verify_totp_code(secret, code, now)
        backup == verify_backup_code(code, row.backup_codes)
        d1 == IF ~ totp /\ backup.valid
              THEN [db EXCEPT ![user_id].backup_codes = backup.updated] ELSE db
    IN  /\ Routed("process_2fa_code")
        /\ UNCHANGED pwlog
        /\ IF pending.text \in CancelTexts
           THEN Handled("process_2fa_code", db, state_clear(fsm, user_id), FALSE, "cancelled")
           ELSE IF ~ row.exists \/ secret = ""
           THEN Handled("process_2fa_code", db, state_clear(fsm, user_id), FALSE, "no_2fa_data")
           ELSE IF ~ is_password_changed(d1, user_id)
           THEN Handled("process_2fa_code", d1, set_state(fsm, user_id, AUTH_NEW_PASSWORD),
                        TRUE, "must_change")
           ELSE Handled("process_2fa_code", authenticate_user(d1, now, user_id),
                        state_clear(fsm, user_id), TRUE, "authenticated")

process_2fa_code ==
    LET user_id == pending.u
        code == Strip(pending.text)
        row == db[user_id]
        secret == row.two_fa_secret
        totp == verify_totp_code(secret, code, now)
        backup == verify_backup_code(code, row.backup_codes)
        d1 == IF ~ totp /\ backup.valid
              THEN [db EXCEPT ![user_id].backup_codes = backup.updated] ELSE db
    IN  /\ Routed("process_2fa_code")
        /\ UNCHANGED pwlog
        /\ IF pending.text \in CancelTexts
           THEN Handled("process_2fa_code", db, state_clear(fsm, user_id), FALSE, "cancelled")
           ELSE IF ~ row.exists \/ secret = ""
           THEN Handled("process_2fa_code", db, state_clear(fsm, user_id), FALSE, "no_2fa_data")
           ELSE IF ~ totp /\ ~ backup.valid
           THEN Handled("process_2fa_code", db, fsm, FALSE, "wrong_code")
           ELSE IF ~ is_password_changed(d1, user_id)
           THEN Handled("process_2fa_code", d1, set_state(fsm, user_id, AUTH_NEW_PASSWORD),
                        TRUE, "must_change")
           ELSE Handled("process_2fa_code", authenticate_user(d1, now, user_id),
                        state_clear(fsm, user_id), TRUE, "authenticated")

\* process_new_password that skips the validation of the candidate
process_new_password_unvalidated ==
    LET user_id == pending.u
        new_password == pending.text
    IN  /\ Routed("process_new_password")
        /\ UNCHANGED pwlog
        /\ IF new_password \in CancelTexts
           THEN Handled("process_new_password", db, state_clear(fsm, user_id), FALSE, "cancelled")
           ELSE Handled("process_new_password", db,
                        [fsm EXCEPT ![user_id].new_password = new_password,
                                    ![user_id].state = AUTH_CONFIRM_PASSWORD],
                        TRUE, "confirm")

process_new_password ==
    LET user_id == pending.u
        new_password == pending.text
        v == validate_password(new_password)
    IN  /\ Routed("process_new_password")
        /\ UNCHANGED pwlog
        /\ IF new_password \in CancelTexts
           THEN Handled("process_new_password", db, state_clear(fsm, user_id), FALSE, "cancelled")
           ELSE IF ~ v.ok
           THEN Handled("process_new_password", db, fsm, FALSE, v.err)
           ELSE Handled("process_new_password", db,
                        [fsm EXCEPT ![user_id].new_password = new_password,
                                    ![user_id].state = AUTH_CONFIRM_PASSWORD],
                        TRUE, "confirm")

\* process_confirm_password that opens the session whatever change_password says
process_confirm_password_always_in ==
    LET user_id == pending.u
        new_password == fsm[user_id].new_password
        confirm == pending.text
        cp == change_password(db, user_id, new_password)
    IN  /\ Routed("process_confirm_password")
        /\ IF confirm \in CancelTexts
           THEN /\ Handled("process_confirm_password", db, state_clear(fsm, user_id), FALSE, "cancelled")
                /\ UNCHANGED pwlog
           ELSE IF new_password # confirm
           THEN /\ Handled("process_confirm_password", db,
                           set_state(fsm, user_id, AUTH_NEW_PASSWORD), FALSE, "mismatch")
                /\ UNCHANGED pwlog
           ELSE /\ Handled("process_confirm_password", authenticate_user(cp.db, now, user_id),
                           state_clear(fsm, user_id), TRUE, "changed")
                /\ pwlog' = IF cp.ok THEN Append(pwlog, new_password) ELSE pwlog

process_confirm_password ==
    LET user_id == pending.u
        new_password == fsm[user_id].new_password
        confirm == pending.text
        cp == change_password(db, user_id, new_password)
    IN  /\ Routed("process_confirm_password")
        /\ IF confirm \in CancelTexts
           THEN /\ Handled("process_confirm_password", db, state_clear(fsm, user_id), FALSE, "cancelled")
                /\ UNCHANGED pwlog
           ELSE IF new_password # confirm
           THEN /\ Handled("process_confirm_password", db,
                           set_state(fsm, user_id, AUTH_NEW_PASSWORD), FALSE, "mismatch")
                /\ UNCHANGED pwlog
           ELSE IF ~ cp.ok
           THEN /\ Handled("process_confirm_password", db,
                           set_state(fsm, user_id, AUTH_NEW_PASSWORD), FALSE, cp.msg)
                /\ UNCHANGED pwlog
           ELSE /\ Handled("process_confirm_password", authenticate_user(cp.db, now, user_id),
                           state_clear(fsm, user_id), TRUE, "changed")
                /\ pwlog' = Append(pwlog, new_password)

msg_change_password ==
    LET user_id == pending.u
        ra == require_authentication(db, fsm, now, user_id, FALSE)
    IN  /\ Routed("msg_change_password")
        /\ UNCHANGED pwlog
        /\ IF ~ is_session_active(db, now, user_id)
           THEN Handled("msg_change_password", db, ra.fsm, FALSE, "auth_required")
           ELSE Handled("msg_change_password", db, set_state(fsm, user_id, CP_CURRENT),
                        TRUE, "current")

\* process_current_password that takes any text for the current password
process_current_password_unverified ==
    LET user_id == pending.u
    IN  /\ Routed("process_current_password")
        /\ UNCHANGED pwlog
        /\ IF pending.text \in CancelTexts
           THEN Handled("process_current_password", db, state_clear(fsm, user_id), FALSE, "cancelled")
           ELSE Handled("process_current_password", db, set_state(fsm, user_id, CP_NEW),
                        TRUE, "new")

process_current_password ==
    LET user_id == pending.u
    IN  /\ Routed("process_current_password")
        /\ UNCHANGED pwlog
        /\ IF pending.text \in CancelTexts
           THEN Handled("process_current_password", db, state_clear(fsm, user_id), FALSE, "cancelled")
           ELSE IF ~ verify_user_password(db, user_id, pending.text)
           THEN Handled("process_current_password", db, fsm, FALSE, "wrong_password")
           ELSE Handled("process_current_password", db, set_state(fsm, user_id, CP_NEW),
                        TRUE, "new")

\* process_password_change_new whose cancel also ends the session
process_password_change_new_cancel_logout ==
    LET user_id == pending.u
        new_password == pending.text
        v == validate_password(new_password)
    IN  /\ Routed("process_password_change_new")
        /\ UNCHANGED pwlog
        /\ IF new_password \in CancelTexts
           THEN Handled("process_password_change_new", invalidate_session(db, user_id),
                        state_clear(fsm, user_id), FALSE, "cancelled")
           ELSE IF ~ v.ok
           THEN Handled("process_password_change_new", db, fsm, FALSE, v.err)
           ELSE Handled("process_password_change_new", db,
                        [fsm EXCEPT ![user_id].new_password = new_password,
                                    ![user_id].state = CP_CONFIRM],
                        TRUE, "confirm")

process_password_change_new ==
    LET user_id == pending.u
        new_password == pending.text
        v == validate_password(new_password)
    IN  /\ Routed("process_password_change_new")
        /\ UNCHANGED pwlog
        /\ IF new_password \in CancelTexts
           THEN Handled("process_password_change_new", db, state_clear(fsm, user_id), FALSE, "cancelled")
           ELSE IF ~ v.ok
           THEN Handled("process_password_change_new", db, fsm, FALSE, v.err)
           ELSE Handled("process_password_change_new", db,
                        [fsm EXCEPT ![user_id].new_password = new_password,
                                    ![user_id].state = CP_CONFIRM],
                        TRUE, "confirm")

\* process_password_change_confirm that commits the change before asking for the
\* second factor
process_password_change_confirm_early ==
    LET user_id == pending.u
        new_password == fsm[user_id].new_password
        cp == change_password(db, user_id, new_password)
    IN  /\ Routed("process_password_change_confirm")
        /\ IF pending.text \in CancelTexts
           THEN /\ Handled("process_password_change_confirm", db, state_clear(fsm, user_id),
                           FALSE, "cancelled")
                /\ UNCHANGED pwlog
           ELSE IF pending.text # new_password
           THEN /\ Handled("process_password_change_confirm", db,
                           set_state(fsm, user_id, CP_NEW), FALSE, "mismatch")
                /\ UNCHANGED pwlog
           ELSE IF ~ cp.ok
           THEN /\ Handled("process_password_change_confirm", db,
                           set_state(fsm, user_id, CP_NEW), FALSE, cp.msg)
                /\ UNCHANGED pwlog
           ELSE IF db[user_id].exists /\ db[user_id].two_fa_enabled
           THEN /\ Handled("process_password_change_confirm", cp.db,
                           set_state(fsm, user_id, CP_2FA), TRUE, "need_2fa")
                /\ pwlog' = Append(pwlog, new_password)
           ELSE /\ Handled("process_password_change_confirm", cp.db, state_clear(fsm, user_id),
                           TRUE, "changed")
                /\ pwlog' = Append(pwlog, new_password)

process_password_change_confirm ==
    LET user_id == pending.u
        new_password == fsm[user_id].new_password
        cp == change_password(db, user_id, new_password)
    IN  /\ Routed("process_password_change_confirm")
        /\ IF pending.text \in CancelTexts
           THEN /\ Handled("process_password_change_confirm", db, state_clear(fsm, user_id),
                           FALSE, "cancelled")
                /\ UNCHANGED pwlog
           ELSE IF pending.text # new_password
           THEN /\ Handled("process_password_change_confirm", db,
                           set_state(fsm, user_id, CP_NEW), FALSE, "mismatch")
                /\ UNCHANGED pwlog
           ELSE IF db[user_id].exists /\ db[user_id].two_fa_enabled
           THEN /\ Handled("process_password_change_confirm", db,
                           set_state(fsm, user_id, CP_2FA), TRUE, "need_2fa")
                /\ UNCHANGED pwlog
           ELSE IF ~ cp.ok
           THEN /\ Handled("process_password_change_confirm", db,
                           set_state(fsm, user_id, CP_NEW), FALSE, cp.msg)
                /\ UNCHANGED pwlog
           ELSE /\ Handled("process_password_change_confirm", cp.db, state_clear(fsm, user_id),
                           TRUE, "changed")
                /\ pwlog' = Append(pwlog, new_password)

\* process_password_change_2fa that goes on without second-factor data
process_password_change_2fa_bypass ==
    LET user_id == pending.u
        code == StripChars(Strip(pending.text), {" ", "-"})
        row == db[user_id]
        new_password == fsm[user_id].new_password
        cp == change_password(db, user_id, new_password)
    IN  /\ Routed("process_password_change_2fa")
        /\ IF pending.text \in CancelTexts
           THEN /\ Handled("process_password_change_2fa", db, state_clear(fsm, user_id),
                           FALSE, "cancelled")
                /\ UNCHANGED pwlog
           ELSE IF row.exists /\ row.two_fa_secret # ""
                   /\ ~ verify_totp_code(row.two_fa_secret, code, now)
           THEN /\ Handled("process_password_change_2fa", db, fsm, FALSE, "exception")
                /\ UNCHANGED pwlog
           ELSE IF ~ cp.ok
           THEN /\ Handled("process_password_change_2fa", db,
                           set_state(fsm, user_id, CP_NEW), FALSE, cp.msg)
                /\ UNCHANGED pwlog
           ELSE /\ Handled("process_password_change_2fa", cp.db, state_clear(fsm, user_id),
                           TRUE, "changed")
                /\ pwlog' = Append(pwlog, new_password)

process_password_change_2fa ==
    LET user_id == pending.u
        code == StripChars(Strip(pending.text), {" ", "-"})
        row == db[user_id]
        new_password == fsm[user_id].new_password
        cp == change_password(db, user_id, new_password)
    IN  /\ Routed("process_password_change_2fa")
        /\ IF pending.text \in CancelTexts
           THEN /\ Handled("process_password_change_2fa", db, state_clear(fsm, user_id),
                           FALSE, "cancelled")
                /\ UNCHANGED pwlog
           ELSE IF ~ row.exists \/ row.two_fa_secret = ""
           THEN /\ Handled("process_password_change_2fa", db, state_clear(fsm, user_id),
                           FALSE, "no_2fa_data")
                /\ UNCHANGED pwlog
           ELSE IF ~ verify_totp_code(row.two_fa_secret, code, now)
           \* `await verify_backup_code(user_id, code)` raises: the handler stops here
           THEN /\ Handled("process_password_change_2fa", db, fsm, FALSE, "exception")
                /\ UNCHANGED pwlog
           ELSE IF ~ cp.ok
           THEN /\ Handled("process_password_change_2fa", db,
                           set_state(fsm, user_id, CP_NEW), FALSE, cp.msg)
                /\ UNCHANGED pwlog
           ELSE /\ Handled("process_password_change_2fa", cp.db, state_clear(fsm, user_id),
                           TRUE, "changed")
                /\ pwlog' = Append(pwlog, new_password)

----------------------------------------------------------------------------
(* handlers/two_fa.py *)

msg_2fa_menu ==
    LET user_id == pending.u
    IN  /\ Routed("msg_2fa_menu")
        /\ UNCHANGED pwlog
        /\ IF ~ Privileged(db, user_id)
           THEN Handled("msg_2fa_menu", db, fsm, FALSE, "not_privileged")
           ELSE Handled("msg_2fa_menu", db, state_clear(fsm, user_id), TRUE, "menu")

\* msg_enable_2fa_start that stores the candidate secret in the row at once
msg_enable_2fa_start_persisting ==
    LET user_id == pending.u
        enabled == db[user_id].exists /\ db[user_id].two_fa_enabled
    IN  /\ Routed("msg_enable_2fa_start")
        /\ UNCHANGED pwlog
        /\ IF ~ Privileged(db, user_id)
           THEN Handled("msg_enable_2fa_start", db, fsm, FALSE, "not_privileged")
           ELSE IF enabled
           THEN Handled("msg_enable_2fa_start", db, fsm, FALSE, "already_enabled")
           ELSE \E secret \in Secrets :
                    Handled("msg_enable_2fa_start",
                            [db EXCEPT ![user_id].two_fa_secret = secret],
                            [fsm EXCEPT ![user_id].secret = secret,
                                        ![user_id].state = EN2FA_CODE],
                            TRUE, "scan")

msg_enable_2fa_start ==
    LET user_id == pending.u
        enabled == db[user_id].exists /\ db[user_id].two_fa_enabled
    IN  /\ Routed("msg_enable_2fa_start")
        /\ UNCHANGED pwlog
        /\ IF ~ Privileged(db, user_id)
           THEN Handled("msg_enable_2fa_start", db, fsm, FALSE, "not_privileged")
           ELSE IF enabled
           THEN Handled("msg_enable_2fa_start", db, fsm, FALSE, "already_enabled")
           ELSE \E secret \in Secrets :
                    Handled("msg_enable_2fa_start", db,
                            [fsm EXCEPT ![user_id].secret = secret,
                                        ![user_id].state = EN2FA_CODE],
                            TRUE, "scan")

\* process_enable_2fa_code whose UPDATE leaves last_auth_time alone
process_enable_2fa_code_session_kept ==
    LET user_id == pending.u
        code == StripChars(Strip(pending.text), {" ", "-"})
        secret == fsm[user_id].secret
    IN  /\ Routed("process_enable_2fa_code")
        /\ UNCHANGED pwlog
        /\ IF pending.text = TXT_CANCEL
           THEN Handled("process_enable_2fa_code", db, state_clear(fsm, user_id), FALSE, "cancelled")
           ELSE IF secret = ""
           THEN Handled("process_enable_2fa_code", db, state_clear(fsm, user_id), FALSE, "no_secret")
           ELSE IF ~ verify_totp_code(secret, code, now)
           THEN Handled("process_enable_2fa_code", db, fsm, FALSE, "wrong_code")
           ELSE \E k \in Batches :
                    Handled("process_enable_2fa_code",
                            IF db[user_id].exists
                            THEN [db EXCEPT ![user_id].two_fa_enabled = TRUE,
                                            ![user_id].two_fa_secret = secret,
                                            ![user_id].backup_codes =
                                                store_backup_codes(
                                                    generate_backup_codes(k, BACKUP_CODE_COUNT))]
                            ELSE db,
                            state_clear(fsm, user_id), TRUE, "enabled")

process_enable_2fa_code ==
    LET user_id == pending.u
        code == StripChars(Strip(pending.text), {" ", "-"})
        secret == fsm[user_id].secret
    IN  /\ Routed("process_enable_2fa_code")
        /\ UNCHANGED pwlog
        /\ IF pending.text = TXT_CANCEL
           THEN Handled("process_enable_2fa_code", db, state_clear(fsm, user_id), FALSE, "cancelled")
           ELSE IF secret = ""
           THEN Handled("process_enable_2fa_code", db, state_clear(fsm, user_id), FALSE, "no_secret")
           ELSE IF ~ verify_totp_code(secret, code, now)
           THEN Handled("process_enable_2fa_code", db, fsm, FALSE, "wrong_code")
           ELSE \E k \in Batches :
                    Handled("process_enable_2fa_code",
                            IF db[user_id].exists
                            THEN [db EXCEPT ![user_id].two_fa_enabled = TRUE,
                                            ![user_id].two_fa_secret = secret,
                                            ![user_id].backup_codes =
                                                store_backup_codes(
                                                    generate_backup_codes(k, BACKUP_CODE_COUNT)),
                                            ![user_id].last_auth_time = 0]
                            ELSE db,
                            state_clear(fsm, user_id), TRUE, "enabled")

msg_disable_2fa_start ==
    LET user_id == pending.u
        enabled == db[user_id].exists /\ db[user_id].two_fa_enabled
    IN  /\ Routed("msg_disable_2fa_start")
        /\ UNCHANGED pwlog
        /\ IF ~ Privileged(db, user_id)
           THEN Handled("msg_disable_2fa_start", db, fsm, FALSE, "not_privileged")
           ELSE IF ~ enabled
           THEN Handled("msg_disable_2fa_start", db, fsm, FALSE, "not_enabled")
           ELSE Handled("msg_disable_2fa_start", db, set_state(fsm, user_id, DIS2FA_PASSWORD),
                        TRUE, "password")

\* process_disable_2fa_password that asks for the code whatever the password
process_disable_2fa_password_unverified ==
    LET user_id == pending.u
    IN  /\ Routed("process_disable_2fa_password")
        /\ UNCHANGED pwlog
        /\ IF pending.text = TXT_CANCEL
           THEN Handled("process_disable_2fa_password", db, state_clear(fsm, user_id),
                        FALSE, "cancelled")
           ELSE Handled("process_disable_2fa_password", db,
                        set_state(fsm, user_id, DIS2FA_CODE), TRUE, "code")

process_disable_2fa_password ==
    LET user_id == pending.u
    IN  /\ Routed("process_disable_2fa_password")
        /\ UNCHANGED pwlog
        /\ IF pending.text = TXT_CANCEL
           THEN Handled("process_disable_2fa_password", db, state_clear(fsm, user_id),
                        FALSE, "cancelled")
           ELSE IF ~ verify_user_password(db, user_id, pending.text)
           THEN Handled("process_disable_2fa_password", db, fsm, FALSE, "wrong_password")
           ELSE Handled("process_disable_2fa_password", db,
                        set_state(fsm, user_id, DIS2FA_CODE), TRUE, "code")

\* process_disable_2fa_code that wipes the secret and the codes but leaves the flag
process_disable_2fa_code_flag_kept ==
    LET user_id == pending.u
        code == Strip(pending.text)
        row == db[user_id]
        valid == \/ verify_totp_code(row.two_fa_secret, code, now)
                 \/ verify_backup_code(code, row.backup_codes).valid
    IN  /\ Routed("process_disable_2fa_code")
        /\ UNCHANGED pwlog
        /\ IF pending.text = TXT_CANCEL
           THEN Handled("process_disable_2fa_code", db, state_clear(fsm, user_id), FALSE, "cancelled")
           ELSE IF ~ row.exists
           THEN Handled("process_disable_2fa_code", db, state_clear(fsm, user_id), FALSE, "no_2fa_data")
           ELSE IF ~ valid
           THEN Handled("process_disable_2fa_code", db, fsm, FALSE, "wrong_code")
           ELSE Handled("process_disable_2fa_code",
                        [db EXCEPT ![user_id].two_fa_secret = "",
                                   ![user_id].backup_codes = <<>>,
                                   ![user_id].last_auth_time = 0],
                        state_clear(fsm, user_id), TRUE, "disabled")

process_disable_2fa_code ==
    LET user_id == pending.u
        code == Strip(pending.text)
        row == db[user_id]
        valid == \/ verify_totp_code(row.two_fa_secret, code, now)
                 \/ verify_backup_code(code, row.backup_codes).valid
    IN  /\ Routed("process_disable_2fa_code")
        /\ UNCHANGED pwlog
        /\ IF pending.text = TXT_CANCEL
           THEN Handled("process_disable_2fa_code", db, state_clear(fsm, user_id), FALSE, "cancelled")
           ELSE IF ~ row.exists
           THEN Handled("process_disable_2fa_code", db, state_clear(fsm, user_id), FALSE, "no_2fa_data")
           ELSE IF ~ valid
           THEN Handled("process_disable_2fa_code", db, fsm, FALSE, "wrong_code")
           ELSE Handled("process_disable_2fa_code",
                        [db EXCEPT ![user_id].two_fa_enabled = FALSE,
                                   ![user_id].two_fa_secret = "",
                                   ![user_id].backup_codes = <<>>,
                                   ![user_id].last_auth_time = 0],
                        state_clear(fsm, user_id), TRUE, "disabled")

----------------------------------------------------------------------------
(* The other routers (schedule, settings, curator, admin, reminders): their handlers
   read and write their own tables and columns; of the state modelled here they
   touch only the FSM context, which they leave, clear or move into a state of
   their own *)

other_handler ==
    LET user_id == pending.u
    IN  /\ Routed("other")
        /\ UNCHANGED pwlog
        /\ \/ Handled("other", db, fsm, TRUE, "kept")
           \/ Handled("other", db, state_clear(fsm, user_id), TRUE, "cleared")
           \/ Handled("other", db, set_state(state_clear(fsm, user_id), user_id, ST_OTHER),
                      TRUE, "entered")

----------------------------------------------------------------------------
(* The running bot *)

\* the clock between two updates: a second, or the whole timeout
SysTickSteps == {Res, Res * SESSION_TIMEOUT}

SysTick ==
    /\ pending = NoEvent
    /\ ticks < MaxSysTicks
    /\ \E d \in SysTickSteps : now' = now + d
    /\ ticks' = ticks + 1
    /\ UNCHANGED <<db, fsm, pending, ret, pwlog>>

Update ==
    \E user_id \in Users :
        \/ \E text \in TextsOf(user_id, now) : Middleware(user_id, "message", text)
        \/ Middleware(user_id, "callback", <<>>)

Next ==
    \/ SysTick
    \/ Update
    \/ cmd_start
    \/ setrole_command
    \/ process_initial_password
    \/ process_2fa_code
    \/ process_new_password
    \/ process_confirm_password
    \/ msg_change_password
    \/ process_current_password
    \/ process_password_change_new
    \/ process_password_change_confirm
    \/ process_password_change_2fa
    \/ msg_2fa_menu
    \/ msg_enable_2fa_start
    \/ process_enable_2fa_code
    \/ msg_disable_2fa_start
    \/ process_disable_2fa_password
    \/ process_disable_2fa_code
    \/ other_handler

Spec == Init /\ [][Next]_vars

----------------------------------------------------------------------------
(* The authentication handlers alone: updates delivered to a principal that is
   in one of the AuthStates, on rows of every kind, among them rows whose
   second-factor data is damaged. The FSM context is kept per chat and the row per
   user, so a context may wait for a confirmation while the row has moved on *)

\* the enrolled admin's row with its secret lost while the flag is still set
DamagedDb == [EnrolledDb EXCEPT ![1].two_fa_secret = ""]

FlowTexts(t) ==
    {TXT_CANCEL, TXT_BACK, TXT_OTHER, PW_ADMIN, PW_CURATOR, PW_WEAK, PW_STRONG, PwN(1)}
    \cup {generate_otp(s, timecode(t)) : s \in Secrets}
    \cup {BackupCode(k, 1) : k \in Batches}

\* the middleware lets every update of a principal in an auth state through
\* unchanged; the update reaches the handler of that state
Deliver(user_id, text) ==
    /\ pending = NoEvent
    /\ fsm[user_id].state \in auth_states
    /\ Len(pwlog) < MaxStoreChanges \/ ~ CallsChangePassword(user_id, text)
    /\ pending' = [kind |-> "message", u |-> user_id, text |-> text]
    /\ ret' = Ret("deliver", user_id, text, TRUE, TRUE, "auth_flow", 0, 0, 0)
    /\ UNCHANGED <<db, fsm, now, ticks, pwlog>>

InitFlows ==
    /\ db \in StoreTables \cup {DamagedDb, change_password(EnrolledDb, 1, PwN(1)).db}
    /\ fsm \in [Users -> {[ClearedFsm EXCEPT !.state = s] : s \in {AUTH_PASSWORD, AUTH_2FA_CODE}}
                        \cup {[ClearedFsm EXCEPT !.state = AUTH_CONFIRM_PASSWORD,
                                                 !.new_password = PW_STRONG]}]
    /\ now = BootTime
    /\ ticks = 0
    /\ pending = NoEvent
    /\ ret = NoRet
    /\ pwlog = <<>>

NextFlows ==
    \/ \E u \in Users : \E text \in FlowTexts(now) : Deliver(u, text)
    \/ process_initial_password
    \/ process_2fa_code
    \/ process_new_password
    \/ process_confirm_password

SpecFlows == InitFlows /\ [][NextFlows]_vars

----------------------------------------------------------------------------
(* The bot some time after its start: the administrator has made the forced first
   change, alone or with a second factor enrolled, and signed in a moment ago; it
   sends what changing the password again takes *)

ChangeTexts(t) ==
    {TXT_CANCEL, TXT_CHANGE_PASSWORD, TXT_OTHER, PW_WEAK, PW_STRONG, PwN(1)}
    \cup {generate_otp(s, timecode(t)) : s \in Secrets}
    \cup {BackupCode(k, 1) : k \in Batches}

InitChange ==
    /\ db \in {authenticate_user(d, BootTime, 1) :
                  d \in {change_password(InitialDb, 1, PW_STRONG).db, EnrolledDb}}
    /\ fsm = [u \in Users |-> ClearedFsm]
    /\ now = BootTime
    /\ ticks = 0
    /\ pending = NoEvent
    /\ ret = NoRet
    /\ pwlog = <<>>

NextChange ==
    \/ SysTick
    \/ \E user_id \in Users : \E text \in ChangeTexts(now) : Middleware(user_id, "message", text)
    \/ process_initial_password
    \/ process_2fa_code
    \/ msg_change_password
    \/ process_current_password
    \/ process_password_change_new
    \/ process_password_change_confirm
    \/ process_password_change_2fa
    \/ other_handler

SpecChange == InitChange /\ [][NextChange]_vars

----------------------------------------------------------------------------

(* Second-factor steps on rows whose second-factor data is gone: the FSM context
   is kept per chat and the row per user, so a context may wait for a code while
   the row has lost its secret, by a disable made in another chat or by damage *)

InitDamaged ==
    /\ db \in {authenticate_user(d, BootTime, 1) :
                  d \in {DamagedDb,
                         [EnrolledDb EXCEPT ![1].two_fa_enabled = FALSE,
                                            ![1].two_fa_secret = "",
                                            ![1].backup_codes = <<>>]}}
    /\ fsm \in [Users -> {[ClearedFsm EXCEPT !.state = AUTH_2FA_CODE],
                          [ClearedFsm EXCEPT !.state = CP_2FA, !.new_password = PwN(1)]}]
    /\ now = BootTime
    /\ ticks = 0
    /\ pending = NoEvent
    /\ ret = NoRet
    /\ pwlog = <<>>

SpecDamaged == InitDamaged /\ [][NextChange]_vars

----------------------------------------------------------------------------

(* validate_password alone, on candidates around every rule: the lengths next to
   both limits (filled up with "_", which is allowed and decides no rule), each
   character class present or missing, and a character of every other kind in
   front of or behind the candidate *)

ValidateInputs ==
    {<<>>} \cup
    {pre \o base \o [i \in 1..n |-> "_"] \o suf :
        pre \in {<<>>, <<" ">>, <<"\n">>, <<"U+00E9">>},
        base \in {PwN(1), PW_WEAK, PW_STRONG, <<"A", "b", "c", "d", "1", "2", "3">>,
                  <<"a", "b", "c", "d", "e", "f", "g", "h">>,
                  <<"A", "B", "C", "D", "E", "F", "G", "1">>,
                  <<"a", "b", "c", "d", "e", "f", "g", "1">>},
        n \in {0, MAX_LENGTH - MIN_LENGTH - 1, MAX_LENGTH - MIN_LENGTH},
        suf \in {<<>>, <<" ">>, <<"\t">>, <<"\n">>, <<"!">>, <<"U+0663">>, <<"U+00E9">>}}

ValidatePasswordCall(password) ==
    LET v == validate_password(password)
    IN  /\ ret' = Ret("validate_password", 0, password, FALSE, v.ok, v.err, 0, 0, 0)
        /\ UNCHANGED <<db, fsm, now, ticks, pending, pwlog>>

SpecValidate == Init /\ [][\E password \in ValidateInputs : ValidatePasswordCall(password)]_vars

----------------------------------------------------------------------------

(* verify_totp_code alone: codes the authenticator showed at a time before or
   after the moment of verification, at every phase of the 30-second step, and
   texts that are no six-digit codes *)

InitTotp ==
    /\ db = InitialDb
    /\ fsm = [u \in Users |-> ClearedFsm]
    /\ now \in BootTime .. (BootTime + 2 * TOTP_INTERVAL * Res - 1)
    /\ ticks = 0
    /\ pending = NoEvent
    /\ ret = NoRet
    /\ pwlog = <<>>

\* verify_totp_code(secret, code) at clock reading now; ret.flag tells that the
\* code is the one generated for the time ret.val seconds before now
VerifyTotpCodeCall(secret, code, generated, off) ==
    /\ ret' = Ret("verify_totp_code", 0, code, generated,
                  verify_totp_code(secret, code, now), secret, off, now, 0)
    /\ UNCHANGED <<db, fsm, now, ticks, pending, pwlog>>

\* off: the seconds between the time a code was generated for and its
\* verification (positive: the code is older)
NextTotp ==
    \E secret \in Secrets :
        \/ \E off \in {0 - 65, 0 - 60, 0 - 35, 0 - 31, 0 - 30, 0 - 25, 0 - 1, 0,
                        1, 25, 30, 31, 35, 60, 65} :
              VerifyTotpCodeCall(secret, generate_otp(secret, timecode(now - off * Res)),
                                 TRUE, off)
        \/ LET c == generate_otp(secret, timecode(now))
           IN  \E code \in {<<>>, SubSeq(c, 1, 5), c \o <<"0">>, <<" ">> \o c,
                            <<"a">> \o SubSeq(c, 2, 6), SubSeq(c, 1, 5) \o <<"U+0663">>,
                            PW_ADMIN, TXT_CANCEL} :
                  VerifyTotpCodeCall(secret, code, FALSE, 0)

SpecTotp == InitTotp /\ [][NextTotp]_vars

----------------------------------------------------------------------------

(* Two updates of one principal handled at the same time: start_polling handles
   every update in a task of its own, and process_2fa_code reads the row in one
   transaction and writes backup_codes in another, so the two runs interleave
   between read and write. pending.runs holds the two runs: the text, the
   position in the handler, and the row as that run read it *)

InitRace ==
    /\ db = EnrolledDb
    /\ fsm = [u \in Users |-> IF u = 1 THEN [ClearedFsm EXCEPT !.state = AUTH_2FA_CODE]
                              ELSE ClearedFsm]
    /\ now = BootTime
    /\ ticks = 0
    /\ \E t1, t2 \in {BackupCode(1, 1), BackupCode(1, 2), BackupCode(2, 1), TXT_CANCEL,
                      generate_otp("SECRETA", timecode(BootTime))} :
          pending = [kind |-> "race", u |-> 1, text |-> <<>>,
                     runs |-> [i \in {1, 2} |->
                                 [text |-> IF i = 1 THEN t1 ELSE t2, pc |-> "start",
                                  secret |-> "", backup_codes |-> <<>>, accepted |-> FALSE]]]
    /\ ret = NoRet
    /\ pwlog = <<>>

\* process_2fa_code up to and including its SELECT
Read2faCode(i) ==
    LET user_id == pending.u
        run == pending.runs[i]
    IN  /\ pending.kind = "race"
        /\ run.pc = "start"
        /\ UNCHANGED <<db, now, ticks, ret, pwlog>>
        /\ IF run.text \in CancelTexts
           THEN /\ fsm' = state_clear(fsm, user_id)
                /\ pending' = [pending EXCEPT !.runs[i].pc = "done"]
           ELSE IF ~ db[user_id].exists \/ db[user_id].two_fa_secret = ""
           THEN /\ fsm' = state_clear(fsm, user_id)
                /\ pending' = [pending EXCEPT !.runs[i].pc = "done"]
           ELSE /\ fsm' = fsm
                /\ pending' = [pending EXCEPT !.runs[i].pc = "read",
                                              !.runs[i].secret = db[user_id].two_fa_secret,
                                              !.runs[i].backup_codes = db[user_id].backup_codes]

\* process_2fa_code from the check of the code on: the match on the list as read,
\* the UPDATE of backup_codes, authenticate_user and state.clear()
Finish2faCode(i) ==
    LET user_id == pending.u
        run == pending.runs[i]
        code == Strip(run.text)
        totp == verify_totp_code(run.secret, code, now)
        backup == verify_backup_code(code, run.backup_codes)
        d1 == IF ~ totp /\ backup.valid
              THEN [db EXCEPT ![user_id].backup_codes = backup.updated] ELSE db
    IN  /\ pending.kind = "race"
        /\ run.pc = "read"
        /\ UNCHANGED <<now, ticks, ret, pwlog>>
        /\ IF ~ totp /\ ~ backup.valid
           THEN /\ pending' = [pending EXCEPT !.runs[i].pc = "done"]
                /\ UNCHANGED <<db, fsm>>
           ELSE IF ~ is_password_changed(d1, user_id)
           THEN /\ pending' = [pending EXCEPT !.runs[i].pc = "done", !.runs[i].accepted = TRUE]
                /\ db' = d1
                /\ fsm' = set_state(fsm, user_id, AUTH_NEW_PASSWORD)
           ELSE /\ pending' = [pending EXCEPT !.runs[i].pc = "done", !.runs[i].accepted = TRUE]
                /\ db' = authenticate_user(d1, now, user_id)
                /\ fsm' = state_clear(fsm, user_id)

SpecRace == InitRace /\ [][\E i \in {1, 2} : Read2faCode(i) \/ Finish2faCode(i)]_vars

----------------------------------------------------------------------------

(* Three updates of one principal whose session has run out, handled in tasks of
   their own: the middleware reads state and session, and writes the invalidation
   and the new state later, after awaits during which the other runs go on.
   pending.runs holds for each run its text, its position and the FSM state the
   dispatcher found when it chose the handler *)

InitOlder ==
    /\ db = authenticate_user(change_password(InitialDb, 1, PW_STRONG).db,
                              BootTime - Res * SESSION_TIMEOUT, 1)
    /\ fsm = [u \in Users |-> ClearedFsm]
    /\ now = BootTime
    /\ ticks = 0
    /\ \E texts \in [{1, 2, 3} -> {TXT_OTHER, PW_STRONG}] :
          pending = [kind |-> "race", u |-> 1, text |-> <<>>,
                     runs |-> [i \in {1, 2, 3} |->
                                 [text |-> texts[i], pc |-> "start", state |-> ST_NONE]]]
    /\ ret = NoRet
    /\ pwlog = <<>>

\* SessionActivityMiddleware.__call__ up to its reading of the session
MiddlewareRead(i) ==
    LET user_id == pending.u
        state == fsm[user_id].state
    IN  /\ pending.kind = "race"
        /\ pending.runs[i].pc = "start"
        /\ UNCHANGED <<fsm, now, ticks, ret, pwlog>>
        /\ IF ~ Privileged(db, user_id) \/ state \in auth_states
           THEN /\ pending' = [pending EXCEPT !.runs[i].pc = "handler", !.runs[i].state = state]
                /\ db' = db
           ELSE IF is_session_active(db, now, user_id)
           THEN /\ pending' = [pending EXCEPT !.runs[i].pc = "handler", !.runs[i].state = state]
                /\ db' = update_activity(db, now, user_id)
           ELSE /\ pending' = [pending EXCEPT !.runs[i].pc = "expired", !.runs[i].state = state]
                /\ db' = db

\* the rest of the middleware on a session it read as expired: invalidate_session,
\* the notice, set_state(waiting_password)
MiddlewareExpire(i) ==
    LET user_id == pending.u
    IN  /\ pending.kind = "race"
        /\ pending.runs[i].pc = "expired"
        /\ db' = invalidate_session(db, user_id)
        /\ fsm' = set_state(fsm, user_id, AUTH_PASSWORD)
        /\ pending' = [pending EXCEPT !.runs[i].pc = "done"]
        /\ UNCHANGED <<now, ticks, ret, pwlog>>

\* the handler the dispatcher chose: process_initial_password for a principal that
\* was in waiting_password, a handler without effect on row and state otherwise
HandleUpdate(i) ==
    LET user_id == pending.u
        run == pending.runs[i]
        password == run.text
        two_fa_enabled == db[user_id].exists /\ db[user_id].two_fa_enabled
    IN  /\ pending.kind = "race"
        /\ run.pc = "handler"
        /\ pending' = [pending EXCEPT !.runs[i].pc = "done"]
        /\ UNCHANGED <<now, ticks, ret, pwlog>>
        /\ IF run.state # AUTH_PASSWORD
           THEN UNCHANGED <<db, fsm>>
           ELSE IF password \in CancelTexts
           THEN db' = db /\ fsm' = state_clear(fsm, user_id)
           ELSE IF ~ verify_user_password(db, user_id, password)
           THEN UNCHANGED <<db, fsm>>
           ELSE IF two_fa_enabled
           THEN db' = db /\ fsm' = set_state(fsm, user_id, AUTH_2FA_CODE)
           ELSE IF ~ is_password_changed(db, user_id)
           THEN db' = db /\ fsm' = set_state(fsm, user_id, AUTH_NEW_PASSWORD)
           ELSE /\ db' = authenticate_user(db, now, user_id)
                /\ fsm' = state_clear(fsm, user_id)

SpecOlder ==
    InitOlder /\ [][\E i \in {1, 2, 3} : MiddlewareRead(i) \/ MiddlewareExpire(i) \/ HandleUpdate(i)]_vars

----------------------------------------------------------------------------

(* A curator in the change-password flow whom the administrator makes a student
   again: both have set their passwords and signed in a moment ago; the curator
   sends what changing the password takes, the administrator sends /setrole *)

InitDemote ==
    /\ db = LET d1 == change_password(InitialDb, 1, PW_STRONG).db
                d2 == change_password(set_user_role(d1, 2, "curator"), 2, PW_STRONG).db
            IN  authenticate_user(authenticate_user(d2, BootTime, 1), BootTime, 2)
    /\ fsm = [u \in Users |-> ClearedFsm]
    /\ now = BootTime
    /\ ticks = 0
    /\ pending = NoEvent
    /\ ret = NoRet
    /\ pwlog = <<>>

SpecDemote ==
    InitDemote /\ [][\/ SysTick
                     \/ Middleware(1, "message", SetRoleText(2, "student"))
                     \/ \E text \in {TXT_CHANGE_PASSWORD, TXT_CANCEL, PW_STRONG, PwN(1)} :
                           Middleware(2, "message", text)
                     \/ setrole_command
                     \/ process_initial_password
                     \/ msg_change_password
                     \/ process_current_password
                     \/ process_password_change_new
                     \/ process_password_change_confirm
                     \/ other_handler]_vars

----------------------------------------------------------------------------

(* A privileged principal that keeps answering what the authentication flow asks
   for: from no state, any message; then the stored password, the authenticator's
   current code or a stored backup code, a valid password that is neither the
   current one nor in the history, and its repetition *)

InitLive ==
    /\ db \in InitialTables
              \cup {EnrolledDb, change_password(EnrolledDb, 1, PwN(1)).db}
    /\ fsm \in [Users -> {[ClearedFsm EXCEPT !.state = s] : s \in auth_states \cup {ST_NONE}}
                        \cup {[ClearedFsm EXCEPT !.state = AUTH_CONFIRM_PASSWORD,
                                                 !.new_password = PW_STRONG]}]
    /\ now = BootTime
    /\ ticks = 0
    /\ pending = NoEvent
    /\ ret = NoRet
    /\ pwlog = <<>>

Respond(user_id) ==
    LET row == db[user_id]
        state == fsm[user_id].state
        fresh(p) == /\ validate_password(p).ok
                    /\ ~ verify_password(p, row.hashed_password)
                    /\ \A i \in 1..Len(row.password_history) :
                          ~ verify_password(p, row.password_history[i])
        right(text) ==
            IF state = AUTH_PASSWORD THEN verify_password(text, row.hashed_password)
            ELSE IF state = AUTH_2FA_CODE /\ row.two_fa_enabled
                THEN \/ text = generate_otp(row.two_fa_secret, timecode(now))
                     \/ \E i \in 1..Len(row.backup_codes) :
                           row.backup_codes[i] = hash_backup_code(text)
            ELSE IF state = AUTH_NEW_PASSWORD THEN fresh(text)
            ELSE IF state = AUTH_CONFIRM_PASSWORD /\ fresh(fsm[user_id].new_password)
                THEN text = fsm[user_id].new_password
            ELSE text = TXT_OTHER
    IN  /\ Privileged(db, user_id)
        /\ row.exists /\ row.hashed_password # <<>>
        /\ ~ (is_session_active(db, now, user_id) /\ state = ST_NONE)
        /\ \E text \in {TXT_OTHER, PW_ADMIN, PW_CURATOR, PW_STRONG, PwN(1), PwN(2),
                        BackupCode(1, 1)}
                       \cup {generate_otp(s, timecode(now)) : s \in Secrets} :
              /\ right(text)
              /\ IF state \in auth_states
                 THEN Deliver(user_id, text)
                 ELSE Middleware(user_id, "message", text)

SpecLive ==
    /\ InitLive
    /\ [][\/ SysTick
          \/ \E user_id \in Users : Respond(user_id)
          \/ process_initial_password
          \/ process_2fa_code
          \/ process_new_password
          \/ process_confirm_password]_vars
    /\ \A user_id \in Users : SF_vars(Respond(user_id))
    /\ WF_vars(process_initial_password \/ process_2fa_code
               \/ process_new_password \/ process_confirm_password)

----------------------------------------------------------------------------

(* Properties *)

\* a step that is a call (or handler run) of `op`: every one of them writes ret,
\* and only the clock leaves ret alone
CallStep(op) == ticks' = ticks /\ ret'.op = op

\* the spec's isActive, on the row and a clock reading
SpecIsActive(d, t, u) ==
    /\ d[u].exists
    /\ d[u].last_auth_time # 0
    /\ t - d[u].last_auth_time < SESSION_TIMEOUT * Res

\* an update has reached the middleware: the step that runs it for user u
MiddlewareStep(u) ==
    /\ pending = NoEvent
    /\ ticks' = ticks
    /\ ret'.op = "middleware"
    /\ ret'.u = u

\* the step that runs handler `name` on an update of user u
HandlerStep(name, u) ==
    /\ Routed(name)
    /\ pending.u = u
    /\ pending' = NoEvent

\* C1: in every reachable state of the bot, a principal with an established,
\* unexpired session (last_auth_time not 0 and now - last_auth_time < SESSION_TIMEOUT)
\* has password_changed set: nobody on a default password holds an active session.
C1_ActiveImpliesChanged ==
    \A u \in Users : SpecIsActive(db, now, u) => db[u].password_changed

\* one principal holds a session it re-established with its second factor, while
\* the other has proved its default password and still has no session
C1_Witness ==
    \E u, v \in Users :
        /\ u # v
        /\ SpecIsActive(db, now, u)
        /\ db[u].two_fa_enabled
        /\ db[v].hashed_password = hash_password(DEFAULT_PASSWORDS["curator"])
        /\ ~ db[v].password_changed
        /\ fsm[v].state = AUTH_NEW_PASSWORD
        /\ db[v].last_auth_time = 0

C3_Interceptor ==
    [][\A u \in Users :
        (MiddlewareStep(u) /\ Privileged(db, u) /\ fsm[u].state \notin auth_states) =>
            IF SpecIsActive(db, now, u)
            THEN /\ db'[u].last_auth_time = now
                 /\ pending' # NoEvent
                 /\ pending'.u = u
                 /\ fsm' = fsm
            ELSE /\ db'[u].last_auth_time = 0
                 /\ fsm'[u].state = AUTH_PASSWORD
                 /\ pending' = NoEvent]_vars

\* a session that was established has timed out, and the update that came too late
\* was answered with the password prompt
C3_Witness ==
    /\ ret.op = "middleware"
    /\ ret.msg = "expired"
    /\ pending = NoEvent
    /\ ticks > 0
    /\ db[ret.u].password_changed
    /\ db[ret.u].last_auth_time = 0
    /\ fsm[ret.u].state = AUTH_PASSWORD

\* C4: require_authentication(p, force) returns true and leaves the FSM alone when
\* force is false and the session is active; in every other case it puts p's FSM
\* state to AuthStates.waiting_password and returns false; it never writes the table.
C4_RequireAuthentication ==
    [][\A u \in Users :
        (CallStep("require_authentication") /\ ret'.u = u) =>
            /\ db' = db
            /\ IF ~ ret'.flag /\ is_session_active(db, now, u)
               THEN ret'.ok /\ fsm' = fsm
               ELSE /\ ~ ret'.ok
                    /\ fsm' = [fsm EXCEPT ![u].state = AUTH_PASSWORD]]_vars

\* a forced call on a principal whose session is active has started the password flow
C4_Witness ==
    /\ ret.op = "require_authentication"
    /\ ret.flag
    /\ ret.at = now
    /\ SpecIsActive(db, now, ret.u)
    /\ ~ ret.ok
    /\ fsm[ret.u].state = AUTH_PASSWORD

\* C5: for every clock reading from 0 on, is_session_active(p) is true exactly when
\* p has a row, last_auth_time is not 0 and now - last_auth_time < SESSION_TIMEOUT.
C5_IsActiveIff ==
    \A u \in Users :
        (ret.op = "is_session_active" /\ ret.u = u) =>
            (ret.ok <=> SpecIsActive(db, ret.at, u))

\* C6: sliding window: from an authenticate_user or update_activity of a principal
\* on, with nothing but time passing, the session is active exactly while fewer than
\* SESSION_TIMEOUT seconds have passed since that call; so it is active at once,
\* inactive SESSION_TIMEOUT seconds later, and a refresh made SESSION_TIMEOUT - 1
\* seconds after authenticating keeps it active past the first deadline.
C6_SlidingWindow ==
    \A u \in Users :
        (ret.op \in {"authenticate_user", "update_activity"} /\ ret.u = u /\ db[u].exists) =>
            (is_session_active(db, now, u) <=> now - ret.at < SESSION_TIMEOUT * Res)

\* a refresh made SESSION_TIMEOUT - 1 seconds after the last one, seen at the first
\* deadline: the session is still active
C6_Witness ==
    /\ ret.op = "update_activity"
    /\ ret.prev # 0
    /\ ret.at - ret.prev = (SESSION_TIMEOUT - 1) * Res
    /\ now = ret.prev + SESSION_TIMEOUT * Res
    /\ is_session_active(db, now, ret.u)

\* C7: invalidate_session(p) sets p's last_auth_time to 0 and changes nothing else,
\* of p or of anybody; the session is then inactive however recent the last
\* authentication was, and a row whose last_auth_time is 0 has no active session.
C7_Invalidate ==
    /\ [][\A u \in Users :
            (CallStep("invalidate_session") /\ ret'.u = u /\ db[u].exists) =>
                /\ db'[u] = [db[u] EXCEPT !.last_auth_time = 0]
                /\ \A v \in Users \ {u} : db'[v] = db[v]
                /\ fsm' = fsm
                /\ ~ is_session_active(db', now', u)]_vars
    /\ [](\A u \in Users :
            (db[u].exists /\ db[u].last_auth_time = 0) => ~ is_session_active(db, now, u))

\* a session authenticated this very instant has been invalidated, while the other
\* principal's session is still running
C7_Witness ==
    /\ ret.op = "invalidate_session"
    /\ ret.prev = now
    /\ db[ret.u].last_auth_time = 0
    /\ \E v \in Users \ {ret.u} : SpecIsActive(db, now, v)

\* C8: get_session_remaining_time(p) is max(0, SESSION_TIMEOUT - elapsed), elapsed
\* being now - last_auth_time in whole seconds; it is 0 for a principal with no row or
\* with last_auth_time 0; and it is positive exactly when the session is active.
C8_RemainingTime ==
    \A u \in Users :
        (ret.op = "get_session_remaining_time" /\ ret.u = u) =>
            LET elapsed == ret.at - db[u].last_auth_time
                whole == CHOOSE s \in 0..(elapsed \div Res) :
                            s * Res <= elapsed /\ elapsed < (s + 1) * Res
            IN  /\ db[u].exists => ret.val = Max(0, SESSION_TIMEOUT - whole)
                /\ (~ db[u].exists \/ db[u].last_auth_time = 0) => ret.val = 0
                /\ ret.val > 0 <=> is_session_active(db, ret.at, u)

\* half a second before the timeout: one second is reported and the session is active
C8_Witness ==
    /\ ret.op = "get_session_remaining_time"
    /\ ret.val = 1
    /\ ret.at - db[ret.u].last_auth_time > (SESSION_TIMEOUT - 1) * Res
    /\ is_session_active(db, ret.at, ret.u)

\* C9: change_password(p, new) fails with ReusedPassword and leaves the row as it
\* was whenever new is p's current password or one of the passwords behind the last
\* 8 hashes of password_history.
C9_ReuseRejected ==
    [][\A pw \in PwPool :
        (/\ CallStep("change_password") /\ ret'.u = 1 /\ ret'.arg = pw
         /\ \/ verify_password(pw, db[1].hashed_password)
            \/ \E i \in 1..Len(LastN(db[1].password_history, HISTORY_DEPTH)) :
                  verify_password(pw, LastN(db[1].password_history, HISTORY_DEPTH)[i]))
        => (~ ret'.ok /\ ret'.msg = "ReusedPassword" /\ db' = db)]_vars

\* C10: after nine successful changes to "Abcdefg1" .. "Abcdefg9" in that order, a
\* change back to "Abcdefg1" succeeds and a change to any of "Abcdefg2" ..
\* "Abcdefg9" fails with ReusedPassword.
C10_NinthChange ==
    [][\A pw \in PwPool :
        (/\ CallStep("change_password") /\ ret'.u = 1 /\ ret'.arg = pw
         /\ pwlog = [i \in 1..9 |-> PwN(i)])
        => /\ pw = PwN(1) => ret'.ok
           /\ pw \in {PwN(i) : i \in 2..9} => (~ ret'.ok /\ ret'.msg = "ReusedPassword")]_vars

\* C11: password_history of every principal has at most 8 entries in every
\* reachable state; a successful change_password on a history of 8 entries drops the
\* oldest one and keeps the others in their order, the replaced hash coming last.
C11_HistoryCapped ==
    /\ [](\A u \in Users : Len(db[u].password_history) <= HISTORY_DEPTH)
    /\ [][(/\ CallStep("change_password") /\ ret'.u = 1 /\ ret'.ok
           /\ Len(db[1].password_history) = HISTORY_DEPTH
           /\ db[1].hashed_password # <<>>)
          => db'[1].password_history
                = Append(Tail(db[1].password_history), db[1].hashed_password)]_vars

\* the ninth change has pushed the seeded hash out: the history holds the hashes of
\* "Abcdefg1" .. "Abcdefg8", oldest first
C11_Witness ==
    /\ ret.op = "change_password" /\ ret.ok
    /\ Len(pwlog) = 9
    /\ db[1].password_history = [i \in 1..HISTORY_DEPTH |-> hash_password(PwN(i))]

\* C12: a successful change_password(p, new) leaves hashed_password verifying new,
\* password_changed true and password_history equal to the old history followed by
\* the replaced hash (capped to 8), and changes nothing else: two_fa_enabled,
\* two_fa_secret, backup_codes, last_auth_time and role keep their values, as does
\* every other row; a change_password that fails changes nothing.
C12_ChangeFrame ==
    [][\A u \in Users :
        (CallStep("change_password") /\ ret'.u = u) =>
            IF ret'.ok
            THEN LET h == IF db[u].hashed_password # <<>>
                          THEN Append(db[u].password_history, db[u].hashed_password)
                          ELSE db[u].password_history
                 IN  /\ verify_password(ret'.arg, db'[u].hashed_password)
                     /\ db'[u].password_changed
                     /\ db'[u].password_history = IF Len(h) > HISTORY_DEPTH THEN Tail(h) ELSE h
                     /\ db'[u].two_fa_enabled = db[u].two_fa_enabled
                     /\ db'[u].two_fa_secret = db[u].two_fa_secret
                     /\ db'[u].backup_codes = db[u].backup_codes
                     /\ db'[u].last_auth_time = db[u].last_auth_time
                     /\ db'[u].role = db[u].role
                     /\ \A v \in Users \ {u} : db'[v] = db[v]
            ELSE db' = db]_vars

\* the enrolled admin, holding a session, has changed its password a second time:
\* second factor, backup codes and session stamp are those it had before
C12_Witness ==
    /\ ret.op = "change_password" /\ ret.ok /\ ret.u = 1
    /\ db[1].two_fa_enabled /\ db[1].two_fa_secret = "SECRETA"
    /\ Len(db[1].backup_codes) = BACKUP_CODE_COUNT
    /\ db[1].last_auth_time = BootTime
    /\ db[1].hashed_password = hash_password(PwN(1))
    /\ db[1].password_history
         = <<hash_password(DEFAULT_PASSWORDS["admin"]), hash_password(PW_STRONG)>>

\* C13: a password change is atomic. The write of a change_password, interrupted or
\* not, either leaves the table as it was or sets hashed_password, password_changed
\* and password_history together; and in every reachable state a row whose hash is
\* neither empty nor a seeded default has password_changed set.
C13_AtomicChange ==
    /\ [](\A u \in Users :
            db[u].hashed_password
                \notin {<<>>} \cup {hash_password(DEFAULT_PASSWORDS[r]) : r \in DOMAIN DEFAULT_PASSWORDS}
            => db[u].password_changed)
    /\ [][(pending.kind = "change_password" /\ pending' = NoEvent) =>
            LET u == pending.u
                h == IF pending.current_hashed # <<>>
                     THEN Append(pending.history, pending.current_hashed)
                     ELSE pending.history
            IN  \/ db' = db
                \/ /\ db'[u].hashed_password = hash_password(pending.text)
                   /\ db'[u].password_changed
                   /\ db'[u].password_history = (IF Len(h) > HISTORY_DEPTH THEN Tail(h) ELSE h)
                   /\ \A v \in Users \ {u} : db'[v] = db[v]]_vars

\* the admin set "Strong123", then a change to "Abcdefg1" was interrupted after its
\* read: the row is the one the first change left
C13_Witness ==
    /\ ret.op = "change_password" /\ ret.msg = "interrupted" /\ ret.u = 1
    /\ ret.arg = PwN(1)
    /\ pwlog = <<PW_STRONG>>
    /\ db[1].hashed_password = hash_password(PW_STRONG)
    /\ db[1].password_changed
    /\ db[1].password_history = <<hash_password(DEFAULT_PASSWORDS["admin"])>>

C15_SeedNeverInHistory ==
    \A u \in Users :
        LET role == get_user_role(db, u) IN
        role \in DOMAIN DEFAULT_PASSWORDS =>
            \A i \in 1..Len(db[u].password_history) :
                ~ verify_password(DEFAULT_PASSWORDS[role], db[u].password_history[i])

\* C16: in every reachable state a principal with two_fa_enabled set has a non-empty
\* two_fa_secret.
C16_EnabledHasSecret ==
    \A u \in Users : db[u].two_fa_enabled => db[u].two_fa_secret # ""

\* a principal has just enrolled: flag, secret and codes are stored, its session is
\* reset and its FSM context cleared
C16_Witness ==
    \E u \in Users :
        /\ db[u].two_fa_enabled
        /\ db[u].two_fa_secret \in Secrets
        /\ db[u].last_auth_time = 0
        /\ fsm[u] = ClearedFsm

\* the persisted second-factor columns of a row
TwoFaColumns(row) == <<row.two_fa_enabled, row.two_fa_secret, row.backup_codes>>

\* the update in flight is a correct initial code for the candidate secret of u
CorrectInitialCode(u) ==
    /\ pending.text # TXT_CANCEL
    /\ fsm[u].secret # ""
    /\ verify_totp_code(fsm[u].secret, StripChars(Strip(pending.text), {" ", "-"}), now)

\* C17: enrolment persists nothing until a correct initial code arrives.
\* msg_enable_2fa_start leaves the table as it is and keeps the candidate secret in
\* the FSM context only; in Enable2FAStates:waiting_initial_code a wrong code leaves
\* table and FSM context as they are, a cancel clears the context and writes
\* nothing, and a correct code for the candidate secret stores that secret, sets
\* two_fa_enabled and stores exactly 10 backup-code hashes; no other step turns
\* two_fa_enabled on, stores a secret or adds backup codes.
C17_Enrolment ==
    [][\A u \in Users :
        /\ HandlerStep("msg_enable_2fa_start", u) => db' = db
        /\ HandlerStep("process_enable_2fa_code", u) =>
              IF CorrectInitialCode(u)
              THEN /\ db'[u].two_fa_enabled
                   /\ db'[u].two_fa_secret = fsm[u].secret
                   /\ Len(db'[u].backup_codes) = BACKUP_CODE_COUNT
                   /\ \E k \in Batches :
                         db'[u].backup_codes
                            = [i \in 1..BACKUP_CODE_COUNT |-> hash_backup_code(BackupCode(k, i))]
                   /\ fsm'[u] = ClearedFsm
              ELSE /\ db' = db
                   /\ IF pending.text = TXT_CANCEL \/ fsm[u].secret = ""
                      THEN fsm'[u] = ClearedFsm
                      ELSE fsm'[u] = fsm[u] /\ fsm'[u].state = EN2FA_CODE
        /\ (\/ db'[u].two_fa_enabled /\ ~ db[u].two_fa_enabled
            \/ db'[u].two_fa_secret # db[u].two_fa_secret /\ db'[u].two_fa_secret # ""
            \/ Len(db'[u].backup_codes) > Len(db[u].backup_codes))
              => HandlerStep("process_enable_2fa_code", u) /\ CorrectInitialCode(u)]_vars

\* the candidate secret has been persisted with its ten codes, and the FSM context
\* that carried it is cleared
C17_Witness ==
    \E u \in Users :
        /\ pending = NoEvent
        /\ fsm[u].state = ST_NONE /\ fsm[u].secret = ""
        /\ TwoFaColumns(db[u])
             = <<TRUE, "SECRETA", store_backup_codes(generate_backup_codes(1, BACKUP_CODE_COUNT))>>

\* the update in flight is a currently valid TOTP code of u or one of its stored
\* (unused) backup codes
ValidSecondFactor(u) ==
    \/ verify_totp_code(db[u].two_fa_secret, Strip(pending.text), now)
    \/ \E i \in 1..Len(db[u].backup_codes) :
          db[u].backup_codes[i] = hash_backup_code(NormalizeBackupCode(Strip(pending.text)))

\* C18: two_fa_enabled goes from true to false only in the last step of a disable
\* flow: the step is process_disable_2fa_code in Disable2FAStates:waiting_code on a
\* valid TOTP code or a stored backup code, and it clears two_fa_enabled,
\* two_fa_secret and backup_codes together; that state is entered only by
\* process_disable_2fa_password on the principal's current password, which cannot
\* change while the state lasts; a wrong password or a wrong code leaves the three
\* columns and the state as they are.
C18_DisableFlow ==
    [][\A u \in Users :
        /\ (db[u].two_fa_enabled /\ ~ db'[u].two_fa_enabled) =>
              /\ HandlerStep("process_disable_2fa_code", u)
              /\ fsm[u].state = DIS2FA_CODE
              /\ pending.text # TXT_CANCEL
              /\ ValidSecondFactor(u)
              /\ TwoFaColumns(db'[u]) = <<FALSE, "", <<>>>>
        /\ (fsm'[u].state = DIS2FA_CODE /\ fsm[u].state # DIS2FA_CODE) =>
              /\ HandlerStep("process_disable_2fa_password", u)
              /\ fsm[u].state = DIS2FA_PASSWORD
              /\ db[u].two_fa_enabled
              /\ verify_password(pending.text, db[u].hashed_password)
        /\ (fsm'[u].state = DIS2FA_CODE /\ fsm[u].state = DIS2FA_CODE) =>
              db'[u].hashed_password = db[u].hashed_password
        /\ (/\ HandlerStep("process_disable_2fa_password", u)
            /\ ~ verify_password(pending.text, db[u].hashed_password)) =>
              /\ db' = db
              /\ pending.text # TXT_CANCEL => fsm' = fsm
        /\ (/\ HandlerStep("process_disable_2fa_code", u)
            /\ ~ ValidSecondFactor(u)) =>
              /\ db' = db
              /\ pending.text # TXT_CANCEL => fsm' = fsm]_vars

\* the update the middleware last let through, on an active session, ended the
\* disable flow: the three columns are cleared, the session is reset and the FSM
\* context is cleared
C18_Witness ==
    /\ pending = NoEvent
    /\ ret.op = "middleware" /\ ret.u = 1 /\ ret.msg = "refreshed"
    /\ db[1].password_changed
    /\ db[1].last_auth_time = 0
    /\ TwoFaColumns(db[1]) = <<FALSE, "", <<>>>>
    /\ fsm[1] = ClearedFsm

\* the stored list without its first entry equal to h
WithoutFirst(stored, h) ==
    LET i == CHOOSE k \in 1..Len(stored) :
                 stored[k] = h /\ \A j \in 1..(k - 1) : stored[j] # h
    IN  SubSeq(stored, 1, i - 1) \o SubSeq(stored, i + 1, Len(stored))

\* C19 (as the code has it): verify_backup_code(code, stored) returns true and the
\* stored list with exactly one entry equal to the hash of the normalized code
\* removed, the others kept in their order, when that hash is in the list; when it
\* is not, it returns false and no list at all (None).
C19_VerifyBackupCode ==
    ret.op = "verify_backup_code" =>
        LET h == hash_backup_code(NormalizeBackupCode(ret.arg))
            stored == ret.prev
        IN  IF \E i \in 1..Len(stored) : stored[i] = h
            THEN ret.ok /\ ~ ret.flag /\ ret.val = WithoutFirst(stored, h)
            ELSE ~ ret.ok /\ ret.flag

\* C19 (as stated): the same on a match; when the hash is not in the list,
\* verify_backup_code returns false together with the stored list as it was.
C19_Original ==
    ret.op = "verify_backup_code" =>
        LET h == hash_backup_code(NormalizeBackupCode(ret.arg))
            stored == ret.prev
        IN  IF \E i \in 1..Len(stored) : stored[i] = h
            THEN ret.ok /\ ~ ret.flag /\ ret.val = WithoutFirst(stored, h)
            ELSE ~ ret.ok /\ ~ ret.flag /\ ret.val = stored

\* "bk1x0000" was checked against a list that holds the hash of "BK1X-0000" twice:
\* one of the two is gone, the other entries are where they were
C19_Witness ==
    /\ ret.op = "verify_backup_code" /\ ret.ok
    /\ ret.arg = <<"b", "k", "1", "x", "0", "0", "0", "0">>
    /\ ret.prev = <<hash_backup_code(BackupCode(1, 2)), hash_backup_code(BackupCode(1, 1)),
                    hash_backup_code(BackupCode(1, 1))>>
    /\ ret.val = <<hash_backup_code(BackupCode(1, 2)), hash_backup_code(BackupCode(1, 1))>>

\* the update in flight reaches the backup-code check of process_2fa_code for u: it
\* is no cancel, the row has a secret, and the text is no valid TOTP code
BackupCodeAttempt(u) ==
    /\ HandlerStep("process_2fa_code", u)
    /\ pending.text \notin CancelTexts
    /\ db[u].exists /\ db[u].two_fa_secret # ""
    /\ ~ verify_totp_code(db[u].two_fa_secret, Strip(pending.text), now)

\* the hash under which the text in flight would be stored
AttemptHash == hash_backup_code(NormalizeBackupCode(Strip(pending.text)))

\* h is one of the stored backup-code hashes of the row
Stored(row, h) == \E i \in 1..Len(row.backup_codes) : row.backup_codes[i] = h

\* C20: backup codes are single-use across sequential logins. A backup code
\* accepted in AuthStates:waiting_2fa_code leaves the persisted backup_codes without
\* exactly that code's hash (9 of 10 remain) and lets the login go on; an attempt
\* with a code whose hash is not stored is rejected and changes nothing; and a hash
\* that is not stored comes back only with a new enrolment, so every later attempt
\* with a used code is rejected until then.
C20_SingleUse ==
    [][\A u \in Users :
        /\ (BackupCodeAttempt(u) /\ Stored(db[u], AttemptHash)) =>
              /\ db'[u].backup_codes = WithoutFirst(db[u].backup_codes, AttemptHash)
              /\ Len(db[u].backup_codes) = BACKUP_CODE_COUNT
                    => Len(db'[u].backup_codes) = BACKUP_CODE_COUNT - 1
              /\ ~ Stored(db'[u], AttemptHash)
              /\ fsm'[u].state \in {ST_NONE, AUTH_NEW_PASSWORD}
        /\ (BackupCodeAttempt(u) /\ ~ Stored(db[u], AttemptHash)) =>
              /\ db' = db
              /\ fsm' = fsm
        /\ db'[u].backup_codes # db[u].backup_codes =>
              \A k \in Batches, i \in 1..BACKUP_CODE_COUNT :
                  LET h == hash_backup_code(BackupCode(k, i)) IN
                  (~ Stored(db[u], h) /\ Stored(db'[u], h))
                      => HandlerStep("process_enable_2fa_code", u) /\ CorrectInitialCode(u)]_vars

\* the first backup code was accepted at an earlier login, nine are left, and the
\* principal, asked for its second factor again, has sent the same code
C20_Witness ==
    /\ fsm[1].state = AUTH_2FA_CODE
    /\ pending.u = 1 /\ pending.text = BackupCode(1, 1)
    /\ db[1].two_fa_enabled
    /\ Len(db[1].backup_codes) = BACKUP_CODE_COUNT - 1
    /\ ~ Stored(db[1], hash_backup_code(BackupCode(1, 1)))

\* the text in flight verifies against the stored hash of u
VerifiesStored(u) ==
    /\ db[u].exists
    /\ db[u].hashed_password # <<>>
    /\ verify_password(pending.text, db[u].hashed_password)

\* C21: in AuthStates:waiting_password an input (other than a cancel) that does not
\* verify against the principal's stored hash, also when the principal has no row
\* or no hash, leaves the state as it is and changes nothing in the table; an
\* input that verifies moves to AuthStates:waiting_2fa_code if and only if
\* two_fa_enabled is set.
C21_InitialPassword ==
    [][\A u \in Users :
        (HandlerStep("process_initial_password", u) /\ pending.text \notin CancelTexts) =>
            IF VerifiesStored(u)
            THEN fsm'[u].state = AUTH_2FA_CODE <=> db[u].two_fa_enabled
            ELSE /\ db' = db
                 /\ fsm' = fsm
                 /\ fsm'[u].state = AUTH_PASSWORD]_vars

\* a principal without a row sent "Strong123" as its password: it is still asked for
\* the password and still has no row, while the enrolled admin, whose password that
\* is, has been moved on to the second factor
C21_Witness ==
    /\ pending = NoEvent
    /\ ret.op = "deliver" /\ ret.u = 2 /\ ret.arg = PW_STRONG
    /\ ~ db[2].exists
    /\ fsm[2].state = AUTH_PASSWORD
    /\ db[1].two_fa_enabled /\ db[1].hashed_password = hash_password(PW_STRONG)
    /\ fsm[1].state = AUTH_2FA_CODE
    /\ db[1].last_auth_time = 0

\* the text in flight is a currently valid TOTP code for the stored secret of u
TotpMatches(u) == verify_totp_code(db[u].two_fa_secret, Strip(pending.text), now)

\* C22: in AuthStates:waiting_2fa_code the input is checked as a TOTP code first and
\* as a backup code only if that fails: a valid TOTP code consumes no backup code.
\* If neither check matches, the state stays and nothing in the table changes. A
\* session is established from this state only by this handler, on a row with a
\* secret, after one of the two checks succeeded.
C22_SecondFactor ==
    [][\A u \in Users :
        /\ (/\ HandlerStep("process_2fa_code", u)
            /\ pending.text \notin CancelTexts
            /\ db[u].exists /\ db[u].two_fa_secret # "") =>
              IF TotpMatches(u)
              THEN /\ db'[u].backup_codes = db[u].backup_codes
                   /\ fsm'[u].state \in {ST_NONE, AUTH_NEW_PASSWORD}
              ELSE IF Stored(db[u], AttemptHash)
              THEN /\ db'[u].backup_codes = WithoutFirst(db[u].backup_codes, AttemptHash)
                   /\ fsm'[u].state \in {ST_NONE, AUTH_NEW_PASSWORD}
              ELSE /\ db' = db
                   /\ fsm' = fsm
        /\ (/\ fsm[u].state = AUTH_2FA_CODE
            /\ db'[u].last_auth_time # db[u].last_auth_time) =>
              /\ HandlerStep("process_2fa_code", u)
              /\ pending.text \notin CancelTexts
              /\ db[u].exists /\ db[u].two_fa_secret # ""
              /\ TotpMatches(u) \/ Stored(db[u], AttemptHash)
              /\ db'[u].last_auth_time = now]_vars

\* the enrolled admin answered the request for its second factor with its password:
\* it is still asked for the code, its ten backup codes are stored and it has no
\* session
C22_Witness ==
    /\ pending = NoEvent
    /\ ret.op = "deliver" /\ ret.u = 1 /\ ret.arg = PW_STRONG
    /\ fsm[1].state = AUTH_2FA_CODE
    /\ db[1].two_fa_enabled /\ db[1].two_fa_secret \in Secrets
    /\ Len(db[1].backup_codes) = BACKUP_CODE_COUNT
    /\ db[1].last_auth_time = 0

\* C23: in AuthStates:waiting_confirm_password a confirmation that differs from the
\* stored candidate returns to AuthStates:waiting_new_password and changes nothing
\* in the table; an equal confirmation calls change_password, and only when that
\* succeeds is the password replaced, last_auth_time set to now and the FSM context
\* cleared; when it fails the state returns to AuthStates:waiting_new_password, the
\* table is unchanged and no session is established.
C23_Confirmation ==
    [][\A u \in Users :
        (HandlerStep("process_confirm_password", u) /\ pending.text \notin CancelTexts) =>
            LET cp == change_password(db, u, fsm[u].new_password) IN
            IF pending.text # fsm[u].new_password
            THEN /\ db' = db
                 /\ fsm'[u].state = AUTH_NEW_PASSWORD
            ELSE IF cp.ok
            THEN /\ verify_password(pending.text, db'[u].hashed_password)
                 /\ db'[u].password_changed
                 /\ db'[u].last_auth_time = now
                 /\ fsm'[u] = ClearedFsm
            ELSE /\ db' = db
                 /\ fsm'[u].state = AUTH_NEW_PASSWORD]_vars

\* the admin confirmed "Strong123", a password of its history: the change was
\* refused, it is asked for a new password again and has no session
C23_Witness ==
    /\ pending = NoEvent
    /\ ret.op = "deliver" /\ ret.u = 1 /\ ret.arg = PW_STRONG
    /\ fsm[1].state = AUTH_NEW_PASSWORD /\ fsm[1].new_password = PW_STRONG
    /\ db[1].hashed_password = hash_password(PwN(1))
    /\ db[1].password_history
         = <<hash_password(DEFAULT_PASSWORDS["admin"]), hash_password(PW_STRONG)>>
    /\ db[1].last_auth_time = 0

\* the states of the four orchestrators
FlowStates ==
    auth_states \cup {CP_CURRENT, CP_NEW, CP_CONFIRM, CP_2FA, EN2FA_CODE,
                      DIS2FA_PASSWORD, DIS2FA_CODE}

\* the credential columns of a row, without the session stamp
Credentials(row) ==
    <<row.hashed_password, row.password_changed, row.password_history,
      row.two_fa_enabled, row.two_fa_secret, row.backup_codes>>

\* the handler of a flow state runs on a cancel sent by u
CancelStep(u) ==
    /\ pending.u = u
    /\ pending.kind = "message"
    /\ pending.text = TXT_CANCEL
    /\ fsm[u].state \in FlowStates
    /\ pending' = NoEvent

\* a step of u's own update: the middleware taking it, or the handler it reached
OwnStep(u) ==
    \/ MiddlewareStep(u)
    \/ pending.u = u /\ pending' = NoEvent

\* C24 (as the code has it): in every state of every orchestrator the cancel input
\* clears the FSM context and changes nothing in the table; and no step of the
\* principal's own updates that leaves it inside a flow changes its
\* hashed_password, password_changed, password_history, two_fa_enabled,
\* two_fa_secret or backup_codes, so that the flow leaves these at the cancel as it
\* found them. last_auth_time is not among them: inside a flow the middleware
\* refreshes it to the time of each update of an active session or resets it to 0
\* on expiry.
C24_CancelFrame ==
    [][\A u \in Users :
        /\ CancelStep(u) => (fsm'[u] = ClearedFsm /\ db' = db)
        /\ (OwnStep(u) /\ fsm'[u].state \in FlowStates) =>
              /\ Credentials(db'[u]) = Credentials(db[u])
              /\ db'[u].last_auth_time # db[u].last_auth_time =>
                    /\ MiddlewareStep(u)
                    /\ db'[u].last_auth_time \in {now, 0}]_vars

\* C24 (as stated): the cancel input clears the FSM context, and the seven columns,
\* last_auth_time among them, are at the cancel what they were when the flow was
\* entered: no step of the principal's own updates that finds it inside a flow and
\* leaves it inside one changes any of them.
C24_Original ==
    [][\A u \in Users :
        /\ CancelStep(u) => (fsm'[u] = ClearedFsm /\ db' = db)
        /\ (OwnStep(u) /\ fsm[u].state \in FlowStates /\ fsm'[u].state \in FlowStates) =>
              /\ Credentials(db'[u]) = Credentials(db[u])
              /\ db'[u].last_auth_time = db[u].last_auth_time]_vars

\* a principal that has proved its current password in the change-password flow
\* has sent the cancel some time after it signed in: the middleware has refreshed
\* its stamp and the handler is about to clear the context
C24_Witness ==
    /\ pending.u = 1 /\ pending.text = TXT_CANCEL
    /\ fsm[1].state = CP_NEW
    /\ now > BootTime
    /\ db[1].last_auth_time = now
    /\ db[1].password_changed

\* the states of the Change-Password Orchestrator
ChangeStates == {CP_CURRENT, CP_NEW, CP_CONFIRM, CP_2FA}

\* C25: the "change password" request enters the Change-Password Orchestrator (at
\* AwaitingCurrentPassword) exactly when the session is active, and otherwise starts
\* the Authentication Orchestrator at AwaitingPassword; the orchestrator's states
\* are entered in order only: AwaitingNewPassword by a text that verifies against the
\* stored hash, AwaitingConfirmation by a valid candidate that is kept from then
\* on, the second-factor step by a text equal to the candidate; and it modifies
\* hashed_password only on a matching confirmation or in the second-factor step,
\* to the hash of that candidate.
C25_ChangePasswordFlow ==
    /\ [](\A u \in Users :
            fsm[u].state \in {CP_CONFIRM, CP_2FA} => validate_password(fsm[u].new_password).ok)
    /\ [][\A u \in Users :
            /\ HandlerStep("msg_change_password", u) =>
                  fsm'[u].state = IF SpecIsActive(db, now, u) THEN CP_CURRENT ELSE AUTH_PASSWORD
            /\ (fsm'[u].state = CP_CURRENT /\ fsm[u].state # CP_CURRENT) =>
                  /\ HandlerStep("msg_change_password", u)
                  /\ SpecIsActive(db, now, u)
            /\ (fsm'[u].state = CP_NEW /\ fsm[u].state \notin {CP_NEW, CP_CONFIRM, CP_2FA}) =>
                  /\ HandlerStep("process_current_password", u)
                  /\ fsm[u].state = CP_CURRENT
                  /\ db[u].exists
                  /\ verify_password(pending.text, db[u].hashed_password)
            /\ (fsm'[u].state = CP_CONFIRM /\ fsm[u].state # CP_CONFIRM) =>
                  /\ HandlerStep("process_password_change_new", u)
                  /\ fsm[u].state = CP_NEW
                  /\ validate_password(pending.text).ok
                  /\ fsm'[u].new_password = pending.text
            /\ (fsm'[u].state = CP_2FA /\ fsm[u].state # CP_2FA) =>
                  /\ HandlerStep("process_password_change_confirm", u)
                  /\ fsm[u].state = CP_CONFIRM
                  /\ pending.text = fsm[u].new_password
            /\ (fsm[u].state \in {CP_CONFIRM, CP_2FA} /\ fsm'[u].state \in {CP_CONFIRM, CP_2FA}) =>
                  fsm'[u].new_password = fsm[u].new_password
            /\ (/\ pending.u = u
                /\ pending' = NoEvent
                /\ fsm[u].state \in ChangeStates
                /\ db'[u].hashed_password # db[u].hashed_password) =>
                  /\ \/ fsm[u].state = CP_CONFIRM /\ pending.text = fsm[u].new_password
                     \/ fsm[u].state = CP_2FA
                  /\ verify_password(fsm[u].new_password, db'[u].hashed_password)]_vars

\* the enrolled administrator has been through all four steps and the hash is the
\* candidate's
C25_Witness ==
    /\ pwlog = <<PwN(1)>>
    /\ db[1].two_fa_enabled
    /\ verify_password(PwN(1), db[1].hashed_password)
    /\ fsm[1] = ClearedFsm

\* C26: a password change made through the Change-Password Orchestrator ends the
\* principal's session: the step that changes the hash leaves last_auth_time
\* invalidated (0), so the session is not active and the middleware redirects the
\* principal's next update to AwaitingPassword.
C26_ChangeForcesReauthentication ==
    [][\A u \in Users :
        (/\ pending.u = u
         /\ pending' = NoEvent
         /\ fsm[u].state \in ChangeStates
         /\ db'[u].hashed_password # db[u].hashed_password) =>
              /\ db'[u].last_auth_time = 0
              /\ ~ SpecIsActive(db', now', u)]_vars

\* the administrator's row as _initialize_env_passwords seeds it: the hash of
\* "admin", password_changed false, no session, 2FA off
SeededAdmin == db[1] = InitialDb[1]

\* C27: for the administrator seeded with the default password "admin" and 2FA
\* off, waiting in AwaitingPassword: "admin" leads to AwaitingNewPassword;
\* "Weakpass" is rejected by validation (no digit) and the state stays
\* AwaitingNewPassword; "Strong123" leads to AwaitingPasswordConfirmation;
\* "Strong123" again ends the flow (Idle) with a hash that verifies "Strong123",
\* password_changed true and an active session. Up to the last input the row is
\* the seeded one: password_changed is false and no session is established.
C27_Scenario ==
    /\ [](fsm[1].state \in {AUTH_NEW_PASSWORD, AUTH_CONFIRM_PASSWORD} => SeededAdmin)
    /\ [][/\ (HandlerStep("process_initial_password", 1) /\ SeededAdmin
              /\ pending.text = PW_ADMIN) =>
                  /\ fsm'[1].state = AUTH_NEW_PASSWORD
                  /\ db' = db
          /\ (HandlerStep("process_new_password", 1) /\ pending.text = PW_WEAK) =>
                  /\ validate_password(PW_WEAK) = [ok |-> FALSE, err |-> "no_digit"]
                  /\ fsm'[1].state = AUTH_NEW_PASSWORD
                  /\ db' = db
          /\ (HandlerStep("process_new_password", 1) /\ pending.text = PW_STRONG) =>
                  /\ fsm'[1].state = AUTH_CONFIRM_PASSWORD
                  /\ fsm'[1].new_password = PW_STRONG
                  /\ db' = db
          /\ (HandlerStep("process_confirm_password", 1) /\ pending.text = PW_STRONG
              /\ fsm[1].new_password = PW_STRONG) =>
                  /\ fsm'[1].state = ST_NONE
                  /\ verify_password(PW_STRONG, db'[1].hashed_password)
                  /\ db'[1].password_changed
                  /\ SpecIsActive(db', now', 1)]_vars

\* the end of the scenario: the only password ever set is "Strong123", set by the
\* administrator, who is signed in and idle
C27_Witness ==
    /\ pwlog = <<PW_STRONG>>
    /\ verify_password(PW_STRONG, db[1].hashed_password)
    /\ db[1].password_changed
    /\ db[1].last_auth_time = now
    /\ fsm[1] = ClearedFsm
    /\ pending = NoEvent

\* C28: when the handler of a second-factor step (of the Authentication or of the
\* Change-Password Orchestrator) runs for a principal whose record is missing or
\* whose two_fa_secret is empty, the orchestrator state is cleared and the table is
\* left as it was: no session is established, no password is changed, and
\* two_fa_enabled, two_fa_secret and backup_codes are not modified.
C28_MissingTwoFactorData ==
    [][\A u \in Users :
        (/\ HandlerStep("process_2fa_code", u) \/ HandlerStep("process_password_change_2fa", u)
         /\ ~ db[u].exists \/ db[u].two_fa_secret = "") =>
              /\ fsm'[u] = ClearedFsm
              /\ db' = db
              /\ pwlog' = pwlog]_vars

\* the administrator's row still says 2FA is on but the secret is gone, and a text
\* that is no cancel reaches the second-factor step of the password change
C28_Witness ==
    /\ pending.u = 1
    /\ pending.text = PW_STRONG
    /\ fsm[1].state = CP_2FA
    /\ db[1].two_fa_enabled
    /\ db[1].two_fa_secret = ""

\* C29: when a privileged principal is left in an intermediate state of a flow (any
\* orchestrator state but AwaitingPassword) by its last update and sends its next
\* message SESSION_TIMEOUT or longer after that update, the middleware does not
\* hand the message to the handler of the abandoned step: it puts the principal
\* into AwaitingPassword.
C29_StaleStateOverwritten ==
    [][\A u \in Users :
        (/\ MiddlewareStep(u)
         /\ ret.op = "middleware" /\ ret.u = u
         /\ Privileged(db, u)
         /\ fsm[u].state \in FlowStates \ {AUTH_PASSWORD}
         /\ now - ret.at >= Res * SESSION_TIMEOUT) =>
              /\ pending' = NoEvent
              /\ fsm'[u].state = AUTH_PASSWORD]_vars

\* the characters Python's str.isspace accepts among those the candidates carry
Whitespace == {" ", "\t", "\n"}

\* the rules of the specification, one by one
RuleLength(p) == Len(p) >= 8 /\ Len(p) <= 128
RuleNoWhitespace(p) == \A i \in 1..Len(p) : p[i] \notin Whitespace
RuleLower(p) == \E i \in 1..Len(p) : p[i] \in LowerAZ
RuleUpper(p) == \E i \in 1..Len(p) : p[i] \in UpperAZ
RuleDigit(p) == \E i \in 1..Len(p) : p[i] \in AsciiDigits
RuleAlphabet(p) == \A i \in 1..Len(p) : p[i] \in AllowedChars

\* C30: validate_password(candidate) succeeds exactly when the candidate is 8 to
\* 128 characters long, holds no whitespace character, holds a lowercase letter,
\* an uppercase letter and a digit, and consists of [A-Za-z0-9] and the allowed
\* punctuation only; a rejection carries the error of a rule that the candidate
\* violates, a different error for each rule.
C30_Validate ==
    ret.op = "validate_password" =>
        LET p == ret.arg IN
        /\ ret.ok <=> /\ RuleLength(p)
                      /\ RuleNoWhitespace(p)
                      /\ RuleLower(p)
                      /\ RuleUpper(p)
                      /\ RuleDigit(p)
                      /\ RuleAlphabet(p)
        /\ ret.msg \in {"empty", "too_short", "too_long"} => ~ RuleLength(p)
        /\ ret.msg = "space" => ~ RuleNoWhitespace(p)
        /\ ret.msg = "no_lower" => ~ RuleLower(p)
        /\ ret.msg = "no_upper" => ~ RuleUpper(p)
        /\ ret.msg = "no_digit" => ~ RuleDigit(p)
        /\ ret.msg = "bad_char" => ~ RuleAlphabet(p)

\* the 30-second step a clock reading (in ticks) lies in
StepOf(t) == (t \div Res) \div 30

\* C31: verify_totp_code rejects every text that is not exactly six digits; a
\* six-digit code generated for time T is accepted exactly when the verification
\* happens in the step of T, the step before it or the step after it; so a code is
\* accepted 25 seconds before and after T and rejected 65 seconds before and
\* after T, at every phase of the step.
C31_TotpWindow ==
    ret.op = "verify_totp_code" =>
        /\ (Len(ret.arg) # 6 \/ \E i \in 1..Len(ret.arg) : ret.arg[i] \notin AsciiDigits) =>
              ~ ret.ok
        /\ ret.flag =>
              /\ ret.ok <=> StepOf(ret.at) - StepOf(ret.at - ret.val * Res) \in {0 - 1, 0, 1}
              /\ ret.val \in {25, 0 - 25} => ret.ok
              /\ ret.val \in {65, 0 - 65} => ~ ret.ok

\* a code generated 25 seconds ago, in the step before the current one, is accepted
C31_Witness ==
    /\ ret.op = "verify_totp_code"
    /\ ret.flag
    /\ ret.val = 25
    /\ StepOf(ret.at) = StepOf(ret.at - 25 * Res) + 1
    /\ ret.ok

\* the columns a password change writes
PasswordColumns(row) == <<row.hashed_password, row.password_changed, row.password_history>>

\* C32: for a principal with two_fa_enabled in the Change-Password Orchestrator, a
\* matching confirmation leads to the second-factor step without touching
\* hashed_password, password_changed or password_history, and while the principal
\* is in that step the three columns change only when its handler is given a valid
\* second factor; a cancel there, or the expiry of the session, leaves them as
\* they were.
C32_NoChangeBeforeSecondFactor ==
    [][\A u \in Users :
        /\ (HandlerStep("process_password_change_confirm", u) /\ db[u].two_fa_enabled) =>
              /\ PasswordColumns(db'[u]) = PasswordColumns(db[u])
              /\ (pending.text = fsm[u].new_password /\ pending.text \notin CancelTexts) =>
                    fsm'[u].state = CP_2FA
        /\ (fsm[u].state = CP_2FA /\ db[u].two_fa_enabled
            /\ PasswordColumns(db'[u]) # PasswordColumns(db[u])) =>
              /\ HandlerStep("process_password_change_2fa", u)
              /\ pending.text \notin CancelTexts
              /\ ValidSecondFactor(u)]_vars

\* the enrolled administrator has confirmed the new password and now cancels at
\* the second-factor step; the old password is still the stored one
C32_Witness ==
    /\ pending.u = 1
    /\ pending.text = TXT_CANCEL
    /\ fsm[1].state = CP_2FA
    /\ fsm[1].new_password = PwN(1)
    /\ db[1].two_fa_enabled
    /\ verify_password(PW_STRONG, db[1].hashed_password)

\* C33: in the second-factor step of the Change-Password Orchestrator every text
\* that is no cancel is handled to the end: a valid TOTP code or a valid unused
\* backup code completes the password change (the hash becomes the candidate's
\* and the orchestrator state is cleared), and every other text leaves the
\* principal in the step with nothing changed.
C33_SecondFactorHandled ==
    [][\A u \in Users :
        (/\ HandlerStep("process_password_change_2fa", u)
         /\ pending.text \notin CancelTexts
         /\ db[u].exists /\ db[u].two_fa_secret # "") =>
              IF ValidSecondFactor(u)
              THEN change_password(db, u, fsm[u].new_password).ok =>
                      /\ verify_password(fsm[u].new_password, db'[u].hashed_password)
                      /\ fsm'[u] = ClearedFsm
              ELSE /\ fsm'[u] = fsm[u]
                   /\ db' = db]_vars

\* C34: whenever a handler runs on an event of a privileged principal whose
\* session is not active, it is a handler of the Authentication Orchestrator, or
\* /start, which then asks for authentication instead of showing the panel;
\* /setrole, the settings handlers and the callback-query handlers do not run,
\* whatever state the principal is in.
C34_AccessGating ==
    [][\A u \in Users :
        (/\ pending.u = u
         /\ pending' = NoEvent
         /\ Privileged(db, u)
         /\ ~ SpecIsActive(db, now, u)) =>
              /\ Route(pending, fsm[u].state) \in
                    {"process_initial_password", "process_2fa_code", "process_new_password",
                     "process_confirm_password", "cmd_start"}
              /\ Route(pending, fsm[u].state) = "cmd_start" => fsm'[u].state = AUTH_PASSWORD]_vars

\* C35: when two 2FA-code updates of one principal are handled concurrently and
\* both have ended: if they carry the same backup code, at most one of them was
\* accepted; if they carry two different stored backup codes and both were
\* accepted, neither hash is in the persisted backup_codes any more.
C35_SingleUseConcurrent ==
    (pending.kind = "race" /\ pending.runs[1].pc = "done" /\ pending.runs[2].pc = "done") =>
        LET r1 == pending.runs[1]
            r2 == pending.runs[2]
            h1 == hash_backup_code(NormalizeBackupCode(Strip(r1.text)))
            h2 == hash_backup_code(NormalizeBackupCode(Strip(r2.text)))
        IN  /\ (r1.text = r2.text /\ Stored(EnrolledDb[1], h1)) => ~ (r1.accepted /\ r2.accepted)
            /\ (r1.text # r2.text /\ Stored(EnrolledDb[1], h1) /\ Stored(EnrolledDb[1], h2)
                /\ r1.accepted /\ r2.accepted) =>
                  (~ Stored(db[1], h1) /\ ~ Stored(db[1], h2))

\* C36: a middleware run that read the session as expired and has not yet written
\* belongs to an update received before any later sign-in; when the principal's
\* session is active again by the time that run writes, the run neither resets
\* last_auth_time to 0 nor puts the principal back into AwaitingPassword.
C36_OlderEventHarmless ==
    [][\A i \in {1, 2, 3} :
        (/\ pending.kind = "race"
         /\ pending.runs[i].pc = "expired"
         /\ pending'.runs[i].pc = "done"
         /\ SpecIsActive(db, now, pending.u)) =>
              /\ db'[pending.u].last_auth_time # 0
              /\ fsm'[pending.u].state # AUTH_PASSWORD]_vars

SettingsStates == ChangeStates \cup {EN2FA_CODE, DIS2FA_PASSWORD, DIS2FA_CODE}

\* C38: a handler of a settings flow changes a credential column of its principal
\* only on an update that the middleware let through because it found the
\* principal's session active; and an update of a principal that is in a settings
\* flow without an active session is dropped by the middleware, which replaces
\* the state by AwaitingPassword and leaves the credentials as they are.
C38_MutationNeedsSession ==
    [][\A u \in Users :
        /\ (/\ pending.u = u
            /\ pending' = NoEvent
            /\ fsm[u].state \in SettingsStates
            /\ Credentials(db'[u]) # Credentials(db[u])) =>
              /\ ret.op = "middleware" /\ ret.u = u /\ ret.msg = "refreshed"
              /\ SpecIsActive(db, now, u)
        /\ (/\ MiddlewareStep(u)
            /\ fsm[u].state \in SettingsStates
            /\ ~ SpecIsActive(db, now, u)) =>
              /\ pending' = NoEvent
              /\ fsm'[u].state = AUTH_PASSWORD
              /\ Credentials(db'[u]) = Credentials(db[u])]_vars

\* C39: authentication can always complete. Whenever a principal is privileged and
\* has a stored password hash, and it keeps answering with the stored password, a
\* valid second factor where one is enabled, and a valid password that was not used
\* before together with its repetition where a new password is asked for, its
\* session is eventually active with no FSM state; none of the four AuthStates and
\* no row the bot writes holds it back.
C39_AuthenticationCompletes ==
    \A u \in Users :
        (Privileged(db, u) /\ db[u].exists /\ db[u].hashed_password # <<>>)
            ~> (SpecIsActive(db, now, u) /\ fsm[u].state = ST_NONE)

\* the enrolled administrator has come from an AuthStates state through a change of
\* password to an active session and no state
C39_Witness ==
    /\ SpecIsActive(db, now, 1) /\ fsm[1].state = ST_NONE
    /\ db[1].two_fa_enabled
    /\ pwlog # <<>>

\* C40: the frame of an accepted second factor in AuthStates:waiting_2fa_code,
\* for a handler run on its own and for a run that finishes while another update
\* of the principal is being handled. A code accepted as a TOTP code leaves the
\* persisted backup_codes as they are; a code accepted as a backup code is stored
\* and the step removes exactly its hash from the persisted list, the other
\* hashes staying in their order; the secret and two_fa_enabled do not change.
C40_SecondFactorFrame ==
    [][/\ \A u \in Users :
            (/\ HandlerStep("process_2fa_code", u)
             /\ pending.text \notin CancelTexts
             /\ db[u].exists /\ db[u].two_fa_secret # ""
             /\ ValidSecondFactor(u)) =>
                /\ db'[u].two_fa_secret = db[u].two_fa_secret
                /\ db'[u].two_fa_enabled = db[u].two_fa_enabled
                /\ IF TotpMatches(u)
                   THEN db'[u].backup_codes = db[u].backup_codes
                   ELSE db'[u].backup_codes = WithoutFirst(db[u].backup_codes, AttemptHash)
       /\ \A i \in {1, 2} :
            (/\ pending.kind = "race"
             /\ pending.runs[i].pc = "read"
             /\ pending'.runs[i].accepted) =>
                LET u == pending.u
                    run == pending.runs[i]
                    h == hash_backup_code(NormalizeBackupCode(Strip(run.text)))
                IN  /\ db'[u].two_fa_secret = db[u].two_fa_secret
                    /\ db'[u].two_fa_enabled = db[u].two_fa_enabled
                    /\ IF verify_totp_code(run.secret, Strip(run.text), now)
                       THEN db'[u].backup_codes = db[u].backup_codes
                       ELSE /\ Stored(db[u], h)
                            /\ db'[u].backup_codes = WithoutFirst(db[u].backup_codes, h)]_vars

====
